---- MODULE Spec2Model ----
(***************************************************************************)
(* Verification model of the S3 mover / CSV merge lambdas.                 *)
(*   - move_file                (s3_file_mover_lambda.py)                  *)
(*   - get_files_with_retry     (s3_file_mover_lambda.py) and its CSV twin *)
(*     get_csv_files_with_retry (csv_merge_lambda.py)                      *)
(*   - process_files_in_batches / merge_csv_files batch slicing            *)
(*   - merge_csv_files with its thread pool (csv_merge_lambda.py)          *)
(*   - the batch planner        (batch_generator_lambda.py)                *)
(*   - the results aggregator   (results_aggregator_lambda.py)             *)
(*   - the two lambda_handler entry points of the mover and the merge      *)
(*   - process_files_in_batches / process_batch and the key remapping      *)
(* Each component has its own specification; the variables of the other    *)
(* components stay at their idle values.                                   *)
(***************************************************************************)
EXTENDS Integers, Sequences, FiniteSets, TLC

VARIABLES
  \* ---- move_file ----
  mv_pc,        \* position inside move_file: "copy","head","delete","sleep","done"
  mv_attempt,   \* loop variable `attempt`
  mv_log,       \* history: store calls and sleeps issued by this call, in order
  mv_result,    \* return value: "none" until it returns, then TRUE / FALSE
  mv_calls,     \* history: number of earlier calls on the same object
  mv_prev_log,  \* history: mv_log of the previous call on the same object
  srcPresent,   \* the source object exists under (source_bucket, source_key)
  dstPresent    \* an object exists under (dest_bucket, dest_key)

VARIABLES
  \* ---- get_files_with_retry / get_csv_files_with_retry ----
  ls_pc,        \* "primary","manual","time": next page call of that strategy;
                \* "backoff": about to sleep; "returned"; "raised"
  ls_variant,   \* "mover" (get_files_with_retry) or "merge" (get_csv_files_with_retry)
  ls_max_files, \* argument max_files
  ls_attempt,   \* loop variable `attempt`
  ls_files,     \* `files` of the strategy that is running
  ls_items,     \* entries the paginator has handed out in this strategy call
  ls_pageNo,    \* pages fetched by this strategy call
  ls_result,    \* "none", the returned sequence, or the error code raised
  ls_trace,     \* history: strategies started, failed store calls and backoff sleeps
  ls_first,     \* history: outcome of the first store call ("none" before it)
  ls_permErr,   \* history: strategy whose store call first failed permanently
  ls_afterPerm, \* history: a store call or a sleep followed that failure
  ls_returns,   \* history: the strategy calls that ended, in order, with the
                \* attempt and the number of files returned (-1: it raised)
  ls_truncated  \* history: IsTruncated of the page the running strategy
                \* call fetched last (FALSE before its first page)

VARIABLES
  \* ---- the batch loop of process_files_in_batches / merge_csv_files ----
  pt_pc,         \* "start","loop","done","error"
  pt_files,      \* argument files / csv_files
  pt_batch_size, \* argument batch_size
  pt_i,          \* loop variable `i`
  pt_batches     \* history: the slices taken so far, in order

VARIABLES
  \* ---- batch planner (batch_generator_lambda.lambda_handler) ----
  pl_pc,             \* "start","loop","done"
  pl_has_bucket,     \* event carries a non-empty source_bucket
  pl_total_files,    \* event['total_files']
  pl_files_per_batch,\* event['files_per_batch']
  pl_batch_num,      \* loop variable `batch_num`
  pl_total_batches,  \* local `total_batches`
  pl_batches,        \* local `batches`
  pl_status          \* statusCode of the response, 0 until it returns

VARIABLES
  \* ---- merge_csv_files ----
  mg_pc,          \* main thread: "submit","wait","collect","put","done","raised"
  mg_n,           \* len(csv_files); the files are numbered 1..mg_n
  mg_batch_size,  \* argument batch_size
  mg_i,           \* loop variable `i` of the submit loop
  mg_futures,     \* one record per submitted task: its batch, state and locals
  mg_lock,        \* `lock`: 0 when free, else the task that holds it
  header_written, \* nonlocal header_written
  files_processed,\* nonlocal files_processed
  total_rows,     \* nonlocal total_rows
  merged_content, \* lines written to the StringIO, in order
  mg_preset,      \* futures that had finished when as_completed was called
  mg_order,       \* futures that finished after that call and are not yet
                  \* yielded, in the order they finished
  mg_collected,   \* futures as_completed has yielded
  mg_output,      \* lines of the object written to the destination, or "none"
  mg_result,      \* "none", the returned counters, or "error" when it raised
  mg_got          \* history: what read_csv_from_s3 returned per file: "none"
                  \* (not read yet), "null", or "short" / "two" / "more" lines

VARIABLES
  \* ---- results aggregator (results_aggregator_lambda.lambda_handler) ----
  ag_pc,                 \* "start","loop","done"
  ag_has_dest,           \* event carries a non-empty dest_bucket
  parallel_results,      \* event['parallel_results']
  ag_i,                  \* entries of parallel_results the loop has handled
  successful_batches,    \* local successful_batches
  failed_batches,        \* local failed_batches
  total_files_processed, \* local total_files_processed
  ag_total_rows,         \* local total_rows
  ag_summary,            \* summary_report, "none" until it is built
  ag_status,             \* statusCode of the response, 0 until it returns
  ag_puts                \* history: outcomes of the put_object calls issued

VARIABLES
  \* ---- lambda_handler of the mover and of the CSV merge ----
  hd_pc,         \* "start","list","process","done"
  hd_variant,    \* "mover" (s3_file_mover_lambda) or "merge" (csv_merge_lambda)
  hd_event,      \* event: source_bucket, dest_bucket ("absent", "" or a name)
                 \* and batch_size
  hd_env,        \* os.environ: SOURCE_BUCKET, DEST_BUCKET ("absent" or a name)
  hd_files,      \* number of objects the lister returned, -1 before it ran
  hd_calls,      \* history: store calls issued by the invocation, in order
  hd_dest_written, \* some copy or put changed the destination bucket
  hd_response    \* the response, statusCode 0 until the handler returns

VARIABLES
  \* ---- process_files_in_batches / process_batch of the mover ----
  pb_pc,         \* "loop": at the head of the batch loop; "batch": inside
                 \* process_batch; "done"; "error" when it raised
  pb_files,      \* argument files
  pb_batch_size, \* argument batch_size
  pb_i,          \* loop variable `i`
  pb_batch,      \* argument batch of the running process_batch
  pb_j,          \* objects of pb_batch that process_batch has handled
  pb_success,    \* local `success` of process_batch
  pb_errors,     \* local `errors` of process_batch
  success_count, \* local success_count
  error_count,   \* local error_count
  pb_sleeps,     \* history: number of time.sleep(0.1) calls
  pb_moves       \* history: the move_file calls, in order, with their outcome

VARIABLES
  \* ---- the key remapping of process_batch ----
  kr_source_key,    \* file_info['Key']
  kr_source_prefix, \* argument source_prefix
  kr_dest_prefix,   \* argument dest_prefix
  kr_dest_key       \* local dest_key, None until it is computed

VARIABLES
  \* ---- the thread pool of merge_csv_files, tasks reduced to their state ----
  po_pc,         \* main thread: "submit" while the submit loop runs, then "wait"
  po_n,          \* len(csv_files)
  po_batch_size, \* argument batch_size
  po_i,          \* loop variable `i` of the submit loop
  po_tasks       \* per submitted task: "queued", "running" or "finished"

VARIABLES
  \* ---- one execution of the mover over the objects of the store ----
  st_pc,            \* "next": between two objects; "copy","head","delete": inside move_file; "done"
  st_files,         \* files_to_process: the listed source keys, in listing order
  st_source_prefix, \* source_prefix
  st_dest_prefix,   \* dest_prefix
  st_dest_bucket,   \* dest_bucket: "src" when it equals source_bucket, else "dst"
  st_i,             \* number of objects taken from st_files so far
  st_attempt,       \* loop variable `attempt` of the running move_file
  st_dest_key,      \* dest_key of the object being moved, None between objects
  st_dest_keys,     \* history: the dest_key computed for each object taken
  store             \* the objects of both buckets: records [bucket, key, content]

mvVars == <<mv_pc, mv_attempt, mv_log, mv_result, mv_calls, mv_prev_log, srcPresent, dstPresent>>
lsVars == <<ls_pc, ls_variant, ls_max_files, ls_attempt, ls_files, ls_items,
            ls_pageNo, ls_result, ls_trace, ls_first, ls_permErr, ls_afterPerm,
            ls_returns, ls_truncated>>
ptVars == <<pt_pc, pt_files, pt_batch_size, pt_i, pt_batches>>
plVars == <<pl_pc, pl_has_bucket, pl_total_files, pl_files_per_batch, pl_batch_num,
            pl_total_batches, pl_batches, pl_status>>

mgVars == <<mg_pc, mg_n, mg_batch_size, mg_i, mg_futures, mg_lock, header_written,
            files_processed, total_rows, merged_content, mg_preset, mg_order,
            mg_collected, mg_output, mg_result, mg_got>>

agVars == <<ag_pc, ag_has_dest, parallel_results, ag_i, successful_batches,
            failed_batches, total_files_processed, ag_total_rows, ag_summary,
            ag_status, ag_puts>>

hdVars == <<hd_pc, hd_variant, hd_event, hd_env, hd_files, hd_calls,
            hd_dest_written, hd_response>>

pbVars == <<pb_pc, pb_files, pb_batch_size, pb_i, pb_batch, pb_j, pb_success,
            pb_errors, success_count, error_count, pb_sleeps, pb_moves>>

krVars == <<kr_source_key, kr_source_prefix, kr_dest_prefix, kr_dest_key>>

poVars == <<po_pc, po_n, po_batch_size, po_i, po_tasks>>

stVars == <<st_pc, st_files, st_source_prefix, st_dest_prefix, st_dest_bucket, st_i, st_attempt, st_dest_key, st_dest_keys, store>>

vars == <<mvVars, lsVars, ptVars, plVars, mgVars, agVars, hdVars, pbVars, krVars, poVars, stVars>>

\* what the actions of one component leave unchanged
mvFrame == <<lsVars, ptVars, plVars, mgVars, agVars, hdVars, pbVars, krVars, poVars, stVars>>
lsFrame == <<mvVars, ptVars, plVars, mgVars, agVars, hdVars, pbVars, krVars, poVars, stVars>>
ptFrame == <<mvVars, lsVars, plVars, mgVars, agVars, hdVars, pbVars, krVars, poVars, stVars>>
plFrame == <<mvVars, lsVars, ptVars, mgVars, agVars, hdVars, pbVars, krVars, poVars, stVars>>
mgFrame == <<mvVars, lsVars, ptVars, plVars, agVars, hdVars, pbVars, krVars, poVars, stVars>>
agFrame == <<mvVars, lsVars, ptVars, plVars, mgVars, hdVars, pbVars, krVars, poVars, stVars>>
hdFrame == <<mvVars, lsVars, ptVars, plVars, mgVars, agVars, pbVars, krVars, poVars, stVars>>
pbFrame == <<mvVars, lsVars, ptVars, plVars, mgVars, agVars, hdVars, krVars, poVars, stVars>>
krFrame == <<mvVars, lsVars, ptVars, plVars, mgVars, agVars, hdVars, pbVars, poVars, stVars>>
poFrame == <<mvVars, lsVars, ptVars, plVars, mgVars, agVars, hdVars, pbVars, krVars, stVars>>
stFrame == <<mvVars, lsVars, ptVars, plVars, mgVars, agVars, hdVars, pbVars, krVars, poVars>>

-----------------------------------------------------------------------------
(* Generic helpers *)

Min(a, b) == IF a <= b THEN a ELSE b

Range(s) == {s[i] : i \in 1..Len(s)}

-----------------------------------------------------------------------------
(* Store outcomes.  A store call either succeeds ("ok"), raises a          *)
(* ClientError carrying an error code, or raises some other exception.     *)

ClientErrorCodes == {"NoSuchKey", "NoSuchBucket", "AccessDenied", "SlowDown"}
OtherException == "Exception"
StoreOutcomes == {"ok"} \cup ClientErrorCodes \cup {OtherException}

-----------------------------------------------------------------------------
(* move_file(source_bucket, source_key, dest_bucket, dest_key, max_retries=2) *)

move_max_retries == 2

\* how many earlier calls of move_file on the same object are followed
MaxMoveCalls == 1

\* error codes on which move_file gives up at once
MovePermanent == {"NoSuchKey", "NoSuchBucket", "AccessDenied"}

MvLog(op, outcome) == Append(mv_log, [op |-> op, attempt |-> mv_attempt, outcome |-> outcome])

\* `return v`
MvReturn(v) ==
  /\ mv_pc' = "done"
  /\ mv_result' = v
  /\ mv_attempt' = mv_attempt

\* the two outer handlers (except ClientError / except Exception) of the loop body
MvOuterExcept(outcome) ==
  IF outcome \in MovePermanent
    THEN MvReturn(FALSE)
    ELSE IF mv_attempt < move_max_retries - 1
           THEN /\ mv_pc' = "sleep"
                /\ UNCHANGED <<mv_attempt, mv_result>>
           ELSE MvReturn(FALSE)   \* loop exhausted, falls to the final return

move_file_copy ==
  /\ mv_pc = "copy"
  /\ \E outcome \in StoreOutcomes :
       /\ outcome = "ok" => srcPresent
       /\ mv_log' = MvLog("copy", outcome)
       /\ IF outcome = "ok"
            THEN /\ dstPresent' = TRUE
                 /\ mv_pc' = "head"
                 /\ UNCHANGED <<mv_attempt, mv_result>>
            ELSE /\ MvOuterExcept(outcome)
                 /\ UNCHANGED dstPresent
  /\ UNCHANGED srcPresent
  /\ UNCHANGED <<mv_calls, mv_prev_log>>
  /\ UNCHANGED mvFrame

move_file_head_NoRetry ==
  /\ mv_pc = "head"
  /\ \E outcome \in StoreOutcomes :
       /\ outcome = "ok" => dstPresent
       /\ mv_log' = MvLog("head", outcome)
       /\ IF outcome = "ok"
            THEN /\ mv_pc' = "delete"
                 /\ UNCHANGED <<mv_attempt, mv_result>>
            ELSE IF outcome \in ClientErrorCodes
                   THEN MvReturn(FALSE)
                   ELSE MvOuterExcept(outcome)
  /\ UNCHANGED <<srcPresent, dstPresent>>
  /\ UNCHANGED <<mv_calls, mv_prev_log>>
  /\ UNCHANGED mvFrame

move_file_head_NoVerify ==
  /\ mv_pc = "head"
  /\ \E outcome \in StoreOutcomes :
       /\ outcome = "ok" => dstPresent
       /\ mv_log' = MvLog("head", outcome)
       /\ IF outcome = "ok" \/ outcome \in ClientErrorCodes
            THEN /\ mv_pc' = "delete"
                 /\ UNCHANGED <<mv_attempt, mv_result>>
            ELSE MvOuterExcept(outcome)
  /\ UNCHANGED <<srcPresent, dstPresent>>
  /\ UNCHANGED <<mv_calls, mv_prev_log>>
  /\ UNCHANGED mvFrame

move_file_head ==
  /\ mv_pc = "head"
  /\ \E outcome \in StoreOutcomes :
       /\ outcome = "ok" => dstPresent
       /\ mv_log' = MvLog("head", outcome)
       /\ IF outcome = "ok"
            THEN /\ mv_pc' = "delete"
                 /\ UNCHANGED <<mv_attempt, mv_result>>
            ELSE IF outcome \in ClientErrorCodes
                   \* inner `except ClientError`: continue, or return False
                   THEN IF mv_attempt < move_max_retries - 1
                          THEN /\ mv_attempt' = mv_attempt + 1
                               /\ mv_pc' = "copy"
                               /\ UNCHANGED mv_result
                          ELSE MvReturn(FALSE)
                   ELSE MvOuterExcept(outcome)
  /\ UNCHANGED <<srcPresent, dstPresent>>
  /\ UNCHANGED <<mv_calls, mv_prev_log>>
  /\ UNCHANGED mvFrame

move_file_delete_IgnoreFailure ==
  /\ mv_pc = "delete"
  /\ \E outcome \in StoreOutcomes :
       /\ mv_log' = MvLog("delete", outcome)
       /\ srcPresent' = IF outcome = "ok" THEN FALSE ELSE srcPresent
       /\ MvReturn(TRUE)
  /\ UNCHANGED dstPresent
  /\ UNCHANGED <<mv_calls, mv_prev_log>>
  /\ UNCHANGED mvFrame

move_file_delete ==
  /\ mv_pc = "delete"
  /\ \E outcome \in StoreOutcomes :
       /\ mv_log' = MvLog("delete", outcome)
       /\ IF outcome = "ok"
            THEN /\ srcPresent' = FALSE
                 /\ MvReturn(TRUE)
            ELSE /\ MvOuterExcept(outcome)
                 /\ UNCHANGED srcPresent
  /\ UNCHANGED dstPresent
  /\ UNCHANGED <<mv_calls, mv_prev_log>>
  /\ UNCHANGED mvFrame

\* time.sleep(0.5 * (attempt + 1)); the duration is logged in half seconds
move_file_sleep ==
  /\ mv_pc = "sleep"
  /\ mv_log' = MvLog("sleep", mv_attempt + 1)
  /\ mv_attempt' = mv_attempt + 1
  /\ mv_pc' = "copy"
  /\ UNCHANGED <<mv_result, srcPresent, dstPresent>>
  /\ UNCHANGED <<mv_calls, mv_prev_log>>
  /\ UNCHANGED mvFrame

\* `if move_file(source_bucket, source_key, dest_bucket, dest_key):` issued
\* again for the same object, by a later execution that lists it again
move_file_call ==
  /\ mv_pc = "done"
  /\ mv_calls < MaxMoveCalls
  /\ mv_calls' = mv_calls + 1
  /\ mv_prev_log' = mv_log
  /\ mv_log' = <<>>
  /\ mv_attempt' = 0
  /\ mv_result' = "none"
  /\ mv_pc' = "copy"
  /\ UNCHANGED <<srcPresent, dstPresent>>
  /\ UNCHANGED mvFrame

MvInit ==
  /\ mv_pc = "copy"
  /\ mv_attempt = 0
  /\ mv_log = <<>>
  /\ mv_result = "none"
  /\ mv_calls = 0
  /\ mv_prev_log = <<>>
  /\ srcPresent \in BOOLEAN
  /\ dstPresent \in BOOLEAN

MvIdle ==
  /\ mv_pc = "idle"
  /\ mv_attempt = 0
  /\ mv_log = <<>>
  /\ mv_result = "none"
  /\ mv_calls = 0
  /\ mv_prev_log = <<>>
  /\ srcPresent = FALSE
  /\ dstPresent = FALSE

-----------------------------------------------------------------------------
(* Object keys are sequences of characters; a listed object carries its    *)
(* key and whether its LastModified lies within the last 24 hours.         *)

EndsWith(s, suffix) ==
  /\ Len(s) >= Len(suffix)
  /\ SubSeq(s, Len(s) - Len(suffix) + 1, Len(s)) = suffix

LowerChar(c) ==
  CASE c = "C" -> "c"
    [] c = "S" -> "s"
    [] c = "V" -> "v"
    [] OTHER -> c

\* str.lower()
Lower(s) == [i \in 1..Len(s) |-> LowerChar(s[i])]

Slash == <<"/">>
DotCsv == <<".", "c", "s", "v">>

ObjectPool ==
  { [Key |-> <<"a">>,                     recent |-> TRUE],
    [Key |-> <<"d", "/">>,                recent |-> TRUE],
    [Key |-> <<"a", ".", "c", "s", "v">>, recent |-> FALSE],
    [Key |-> <<"b", ".", "C", "S", "V">>, recent |-> TRUE] }

\* the filter of the mover's listing functions
KeepFile(obj) == ~EndsWith(obj.Key, Slash)

\* the filter of the merge's listing functions
KeepCsv(obj) == EndsWith(Lower(obj.Key), DotCsv) /\ ~EndsWith(obj.Key, Slash)

KeepObj(obj, variant, timeWindow) ==
  /\ IF variant = "mover" THEN KeepFile(obj) ELSE KeepCsv(obj)
  /\ timeWindow => obj.recent

-----------------------------------------------------------------------------
(* get_files_with_retry / get_csv_files_with_retry and their strategies    *)

list_max_retries == 3

\* error codes that get_files_with_retry re-raises
ListPermanent == {"NoSuchBucket", "AccessDenied"}

\* bounds of the listing model
MaxCap == 2       \* max_files ranges over 1..MaxCap
MaxPageLen == 2   \* entries per page returned by the store
MaxPages == 2     \* pages the store serves to one strategy call

Pages(n) ==
  {p \in UNION {[1..k -> ObjectPool] : k \in 0..n} :
     \A i, j \in 1..Len(p) : i # j => p[i].Key # p[j].Key}

RECURSIVE AccumulateCapped(_, _, _, _, _)
\* for obj in page['Contents']: if keep: files.append(..); if len(files) >= max_files: break
AccumulateCapped(files, entries, cap, variant, timeWindow) ==
  IF entries = <<>> THEN files
  ELSE IF KeepObj(Head(entries), variant, timeWindow)
         THEN LET f2 == Append(files, Head(entries))
              IN  IF Len(f2) >= cap THEN f2
                  ELSE AccumulateCapped(f2, Tail(entries), cap, variant, timeWindow)
         ELSE AccumulateCapped(files, Tail(entries), cap, variant, timeWindow)

RECURSIVE AccumulateAll_KeepMarkers(_, _, _)
AccumulateAll_KeepMarkers(files, entries, variant) ==
  IF entries = <<>> THEN files
  ELSE AccumulateAll_KeepMarkers(Append(files, Head(entries)), Tail(entries), variant)

RECURSIVE AccumulateAll(_, _, _)
\* for obj in response['Contents']: if keep: files.append(..)
AccumulateAll(files, entries, variant) ==
  IF entries = <<>> THEN files
  ELSE AccumulateAll(IF KeepObj(Head(entries), variant, FALSE)
                       THEN Append(files, Head(entries)) ELSE files,
                     Tail(entries), variant)

LsHistory(strategy, outcome) ==
  /\ ls_trace' = (IF ls_pageNo = 0 THEN Append(ls_trace, strategy) ELSE ls_trace)
                    \o (IF outcome = "ok" THEN <<>> ELSE <<"error">>)
  /\ ls_first' = IF ls_first = "none" THEN outcome ELSE ls_first
  /\ ls_permErr' = IF ls_permErr = "none" /\ outcome \in ListPermanent
                     THEN strategy ELSE ls_permErr
  /\ ls_afterPerm' = (ls_afterPerm \/ ls_permErr # "none")

LsResetStrategy ==
  /\ ls_files' = <<>>
  /\ ls_items' = 0
  /\ ls_pageNo' = 0
  /\ ls_truncated' = FALSE

\* the call of `strategy` ended: it returned `count` files, or raised (-1)
LsRecord(strategy, count) ==
  ls_returns' = Append(ls_returns, [strategy |-> strategy, attempt |-> ls_attempt,
                                    count |-> count])

LsReturn(files) ==
  /\ ls_pc' = "returned"
  /\ ls_result' = files
  /\ LsResetStrategy

LsEndAttempt_RaiseWhenExhausted ==
  IF ls_attempt < list_max_retries - 1
    THEN /\ ls_pc' = "backoff"
         /\ ls_result' = ls_result
         /\ LsResetStrategy
    ELSE /\ ls_pc' = "raised"
         /\ ls_result' = "exhausted"
         /\ LsResetStrategy

\* end of the try body of one attempt: sleep if another attempt follows,
\* otherwise the loop ends and [] is returned
LsEndAttempt ==
  IF ls_attempt < list_max_retries - 1
    THEN /\ ls_pc' = "backoff"
         /\ ls_result' = ls_result
         /\ LsResetStrategy
    ELSE LsReturn(<<>>)

LsAfterStrategy_TimeFirst(strategy, files) ==
  /\ LsRecord(strategy, Len(files))
  /\ IF files # <<>>
       THEN LsReturn(files)
       ELSE IF strategy = "primary" /\ ls_attempt = 0
              THEN /\ ls_pc' = "time"
                   /\ ls_result' = ls_result
                   /\ LsResetStrategy
              ELSE LsEndAttempt

LsAfterStrategy_ManualEveryAttempt(strategy, files) ==
  /\ LsRecord(strategy, Len(files))
  /\ IF files # <<>>
       THEN LsReturn(files)
       ELSE IF strategy = "primary"
              THEN /\ ls_pc' = "manual"
                   /\ ls_result' = ls_result
                   /\ LsResetStrategy
              ELSE LsEndAttempt

\* the statements of the loop body that follow the strategy that returned `files`
LsAfterStrategy(strategy, files) ==
  /\ LsRecord(strategy, Len(files))
  /\ IF files # <<>>
       THEN LsReturn(files)
       ELSE IF strategy = "primary" /\ ls_attempt = 0
              THEN /\ ls_pc' = "manual"
                   /\ ls_result' = ls_result
                   /\ LsResetStrategy
              ELSE IF strategy = "primary" /\ ls_attempt = 1
                     THEN /\ ls_pc' = "time"
                          /\ ls_result' = ls_result
                          /\ LsResetStrategy
                     ELSE LsEndAttempt

\* except ClientError / except Exception of get_files_with_retry
LsExcept_RetryAll(outcome) == LsEndAttempt

LsExcept(outcome) ==
  IF outcome \in ListPermanent
    THEN /\ ls_pc' = "raised"
         /\ ls_result' = outcome
         /\ LsResetStrategy
    ELSE LsEndAttempt

\* one page of a paginator-driven strategy (MaxItems = maxItems)
LsPaginatorPage(strategy, maxItems, timeWindow, entries, truncated) ==
  LET files == AccumulateCapped(ls_files, entries, ls_max_files, ls_variant, timeWindow)
      items == ls_items + Len(entries)
  IN  IF Len(files) < ls_max_files /\ truncated /\ items < maxItems
        THEN /\ ls_files' = files
             /\ ls_items' = items
             /\ ls_pageNo' = ls_pageNo + 1
             /\ ls_truncated' = truncated
             /\ UNCHANGED <<ls_pc, ls_result, ls_returns>>
        ELSE LsAfterStrategy(strategy, files)

\* list_files_standard / list_csv_files_standard: one page of the paginator
list_files_standard ==
  /\ ls_pc = "primary"
  /\ \/ \E outcome \in StoreOutcomes \ {"ok"} :
          /\ LsHistory("primary", outcome)
          /\ LsRecord("primary", -1)
          /\ LsExcept(outcome)
     \/ \E entries \in Pages(Min(MaxPageLen, ls_max_files - ls_items)),
           truncated \in BOOLEAN :
          /\ truncated => ls_pageNo + 1 < MaxPages
          /\ LsHistory("primary", "ok")
          /\ LsPaginatorPage("primary", ls_max_files, FALSE, entries, truncated)
  /\ UNCHANGED <<ls_variant, ls_max_files, ls_attempt>>
  /\ UNCHANGED lsFrame

\* list_files_with_pagination / list_csv_files_with_pagination: one
\* list_objects_v2 call of the while loop, with the inter-page sleep
list_files_with_pagination ==
  /\ ls_pc = "manual"
  /\ \/ \E outcome \in StoreOutcomes \ {"ok"} :
          /\ LsHistory("manual", outcome)
          /\ LsRecord("manual", -1)
          /\ LsExcept(outcome)
     \/ \E entries \in Pages(Min(MaxPageLen, ls_max_files - Len(ls_files))),
           truncated \in BOOLEAN :
          /\ truncated => ls_pageNo + 1 < MaxPages
          /\ LsHistory("manual", "ok")
          /\ LET files == AccumulateAll(ls_files, entries, ls_variant)
             IN  IF entries # <<>> /\ truncated /\ Len(files) < ls_max_files
                   THEN /\ ls_files' = files
                        /\ ls_items' = ls_items + Len(entries)
                        /\ ls_pageNo' = ls_pageNo + 1
                        /\ ls_truncated' = truncated
                        /\ UNCHANGED <<ls_pc, ls_result, ls_returns>>
                   ELSE LsAfterStrategy("manual", files)
  /\ UNCHANGED <<ls_variant, ls_max_files, ls_attempt>>
  /\ UNCHANGED lsFrame

\* list_files_by_time_range / list_csv_files_by_time_range: one page of the
\* paginator; every exception is caught inside the function
list_files_by_time_range ==
  /\ ls_pc = "time"
  /\ \/ \E outcome \in StoreOutcomes \ {"ok"} :
          /\ LsHistory("time", outcome)
          /\ LsAfterStrategy("time", ls_files)
     \/ \E entries \in Pages(Min(MaxPageLen, ls_max_files * 2 - ls_items)),
           truncated \in BOOLEAN :
          /\ truncated => ls_pageNo + 1 < MaxPages
          /\ LsHistory("time", "ok")
          /\ LsPaginatorPage("time", ls_max_files * 2, TRUE, entries, truncated)
  /\ UNCHANGED <<ls_variant, ls_max_files, ls_attempt>>
  /\ UNCHANGED lsFrame

\* time.sleep(2 ** attempt + jitter), then the next iteration of the loop
list_backoff ==
  /\ ls_pc = "backoff"
  /\ ls_trace' = Append(ls_trace, "sleep")
  /\ ls_afterPerm' = (ls_afterPerm \/ ls_permErr # "none")
  /\ ls_attempt' = ls_attempt + 1
  /\ ls_pc' = "primary"
  /\ UNCHANGED <<ls_variant, ls_max_files, ls_files, ls_items, ls_pageNo,
                 ls_result, ls_first, ls_permErr, ls_returns, ls_truncated>>
  /\ UNCHANGED lsFrame

LsInit ==
  /\ ls_pc = "primary"
  /\ ls_variant \in {"mover", "merge"}
  /\ ls_max_files \in 1..MaxCap
  /\ ls_attempt = 0
  /\ ls_files = <<>>
  /\ ls_items = 0
  /\ ls_pageNo = 0
  /\ ls_result = "none"
  /\ ls_trace = <<>>
  /\ ls_first = "none"
  /\ ls_permErr = "none"
  /\ ls_afterPerm = FALSE
  /\ ls_returns = <<>>
  /\ ls_truncated = FALSE

LsIdle ==
  /\ ls_pc = "idle"
  /\ ls_variant = "mover"
  /\ ls_max_files = 1
  /\ ls_attempt = 0
  /\ ls_files = <<>>
  /\ ls_items = 0
  /\ ls_pageNo = 0
  /\ ls_result = "none"
  /\ ls_trace = <<>>
  /\ ls_first = "none"
  /\ ls_permErr = "none"
  /\ ls_afterPerm = FALSE
  /\ ls_returns = <<>>
  /\ ls_truncated = FALSE

-----------------------------------------------------------------------------
(* Batch slicing: the loop `for i in range(0, len(files), batch_size):     *)
(* batch = files[i:i + batch_size]` of process_files_in_batches and of     *)
(* merge_csv_files.                                                        *)

\* bounds of the slicing model
MaxPartN == 6     \* len(files) ranges over 0..MaxPartN
MaxBatch == 4     \* batch_size ranges over -1..MaxBatch

\* files[i:j] for 0 <= i, with Python's clamping of j to len(files)
PySlice_DropShort(files, i, j) ==
  IF j <= Len(files) THEN SubSeq(files, i + 1, j) ELSE <<>>

PySlice(files, i, j) == SubSeq(files, i + 1, Min(j, Len(files)))

\* whether range(0, n, step) still yields the value i
InRange(i, n, step) == IF step > 0 THEN i < n ELSE i > n

partition_start ==
  /\ pt_pc = "start"
  /\ IF pt_batch_size = 0
       THEN pt_pc' = "error"          \* range() arg 3 must not be zero
       ELSE IF InRange(0, Len(pt_files), pt_batch_size)
              THEN pt_pc' = "loop"
              ELSE pt_pc' = "done"
  /\ UNCHANGED <<pt_files, pt_batch_size, pt_i, pt_batches>>
  /\ UNCHANGED ptFrame

\* one iteration: the slice is handed to process_batch / executor.submit
partition_step ==
  /\ pt_pc = "loop"
  /\ pt_batches' = Append(pt_batches, PySlice(pt_files, pt_i, pt_i + pt_batch_size))
  /\ pt_i' = pt_i + pt_batch_size
  /\ pt_pc' = IF InRange(pt_i + pt_batch_size, Len(pt_files), pt_batch_size)
                THEN "loop" ELSE "done"
  /\ UNCHANGED <<pt_files, pt_batch_size>>
  /\ UNCHANGED ptFrame

PtInit ==
  /\ pt_pc = "start"
  /\ \E n \in 0..MaxPartN : pt_files = [k \in 1..n |-> k]
  /\ pt_batch_size \in -1..MaxBatch
  /\ pt_i = 0
  /\ pt_batches = <<>>

PtIdle ==
  /\ pt_pc = "idle"
  /\ pt_files = <<>>
  /\ pt_batch_size = 1
  /\ pt_i = 0
  /\ pt_batches = <<>>

-----------------------------------------------------------------------------
(* The batch planner: lambda_handler of batch_generator_lambda.py          *)

\* bounds of the planner model
MaxTotal == 7      \* total_files ranges over 0..MaxTotal
MaxPerBatch == 4   \* files_per_batch ranges over -2..MaxPerBatch

\* math.ceil(a / b) for b # 0
PyCeilDiv(a, b) ==
  LET n == IF b < 0 THEN -a ELSE a
      d == IF b < 0 THEN -b ELSE b
  IN  IF n >= 0 THEN (n + d - 1) \div d ELSE -((-n) \div d)

\* the statements before the loop
planner_start ==
  /\ pl_pc = "start"
  /\ IF ~pl_has_bucket \/ pl_files_per_batch = 0
       \* ValueError / ZeroDivisionError, caught by the handler
       THEN /\ pl_pc' = "done"
            /\ pl_status' = 500
            /\ UNCHANGED pl_total_batches
       ELSE /\ pl_total_batches' = PyCeilDiv(pl_total_files, pl_files_per_batch)
            /\ pl_pc' = "loop"
            /\ UNCHANGED pl_status
  /\ UNCHANGED <<pl_has_bucket, pl_total_files, pl_files_per_batch, pl_batch_num, pl_batches>>
  /\ UNCHANGED plFrame

\* one iteration of `for batch_num in range(total_batches)`
planner_batch_EndAtStride ==
  /\ pl_pc = "loop"
  /\ pl_batch_num < pl_total_batches
  /\ LET start_index == pl_batch_num * pl_files_per_batch
         end_index == start_index + pl_files_per_batch
     IN  pl_batches' = Append(pl_batches,
                              [batch_number |-> pl_batch_num + 1,
                               batch_start_index |-> start_index,
                               batch_end_index |-> end_index])
  /\ pl_batch_num' = pl_batch_num + 1
  /\ UNCHANGED <<pl_pc, pl_has_bucket, pl_total_files, pl_files_per_batch,
                 pl_total_batches, pl_status>>
  /\ UNCHANGED plFrame

planner_batch ==
  /\ pl_pc = "loop"
  /\ pl_batch_num < pl_total_batches
  /\ LET start_index == pl_batch_num * pl_files_per_batch
         end_index == Min(start_index + pl_files_per_batch, pl_total_files)
     IN  pl_batches' = Append(pl_batches,
                              [batch_number |-> pl_batch_num + 1,
                               batch_start_index |-> start_index,
                               batch_end_index |-> end_index])
  /\ pl_batch_num' = pl_batch_num + 1
  /\ UNCHANGED <<pl_pc, pl_has_bucket, pl_total_files, pl_files_per_batch,
                 pl_total_batches, pl_status>>
  /\ UNCHANGED plFrame

\* the loop is exhausted: return statusCode 200 with the batches
planner_return ==
  /\ pl_pc = "loop"
  /\ pl_batch_num >= pl_total_batches
  /\ pl_pc' = "done"
  /\ pl_status' = 200
  /\ UNCHANGED <<pl_has_bucket, pl_total_files, pl_files_per_batch, pl_batch_num,
                 pl_total_batches, pl_batches>>
  /\ UNCHANGED plFrame

PlInit ==
  /\ pl_pc = "start"
  /\ pl_has_bucket \in BOOLEAN
  /\ pl_total_files \in 0..MaxTotal
  /\ pl_files_per_batch \in -2..MaxPerBatch
  /\ pl_batch_num = 0
  /\ pl_total_batches = 0
  /\ pl_batches = <<>>
  /\ pl_status = 0

PlIdle ==
  /\ pl_pc = "idle"
  /\ pl_has_bucket = FALSE
  /\ pl_total_files = 0
  /\ pl_files_per_batch = 1
  /\ pl_batch_num = 0
  /\ pl_total_batches = 0
  /\ pl_batches = <<>>
  /\ pl_status = 0

-----------------------------------------------------------------------------
(* merge_csv_files: the main thread submits one task per batch to a thread *)
(* pool, the tasks run process_csv_batch concurrently, the main thread     *)
(* collects the results with as_completed and writes the merged object.    *)

\* bounds of the merge model
MaxMergeN == 3      \* len(csv_files) ranges over 1..MaxMergeN
MaxMergeBatch == 2  \* batch_size ranges over 1..MaxMergeBatch

\* max_workers=min(10, len(csv_files))
pool_cap == 10
read_max_retries == 2

\* error codes on which read_csv_from_s3 gives up at once
ReadPermanent == {"NoSuchKey", "NoSuchBucket", "AccessDenied"}

NL == "\n"
Whitespace == {" ", NL}

RECURSIVE LStrip(_)
LStrip(s) == IF s # <<>> /\ Head(s) \in Whitespace THEN LStrip(Tail(s)) ELSE s

RECURSIVE RStrip(_)
RStrip(s) ==
  IF s # <<>> /\ s[Len(s)] \in Whitespace THEN RStrip(SubSeq(s, 1, Len(s) - 1)) ELSE s

\* str.strip()
Strip(s) == RStrip(LStrip(s))

RECURSIVE SplitLines(_)
\* str.split('\n')
SplitLines(s) ==
  IF \E i \in 1..Len(s) : s[i] = NL
    THEN LET i == CHOOSE j \in 1..Len(s) : s[j] = NL /\ \A m \in 1..(j - 1) : s[m] # NL
         IN  <<SubSeq(s, 1, i - 1)>> \o SplitLines(SubSeq(s, i + 1, Len(s)))
    ELSE <<s>>

\* contents a source object may hold
TwoLines == <<"h", NL, "d", NL>>
ThreeLines == <<"h", NL, "d", NL, "e">>
OneLine == <<"h", NL>>
EmptyContent == <<>>
ContentPool == {TwoLines, ThreeLines, OneLine, EmptyContent}

\* the outcomes of get_object that read_csv_from_s3 tells apart
ReadOutcomes == {"ok", "NoSuchKey", "SlowDown", OtherException}

MgFiles == 1..mg_n

\* the value None that read_csv_from_s3 returns when it gives up
None == <<"None">>

\* what is remembered of a content that was read: "short" (fewer than 2
\* lines), "two" (2 lines) or "more"
LineCount(content) ==
  LET n == IF content = <<>> THEN 0 ELSE Len(SplitLines(Strip(content)))
  IN  IF n < 2 THEN "short" ELSE IF n = 2 THEN "two" ELSE "more"

\* the fresh locals of one process_csv_batch(batch) task; attempt and err
\* (the error that made it retry) are those of the running read_csv_from_s3
NewFuture(batch) ==
  [files |-> batch, state |-> "queued", pc |-> "read", k |-> 1, attempt |-> 0,
   err |-> "none", lines |-> <<>>, saw |-> FALSE, tmp |-> 0, content |-> <<>>,
   rows |-> 0]

MgRunning == {b \in 1..Len(mg_futures) : mg_futures[b].state = "running"}
MgFinished == {b \in 1..Len(mg_futures) : mg_futures[b].state = "finished"}

\* `for batch ...: future = executor.submit(process_csv_batch, batch)`
merge_submit ==
  /\ mg_pc = "submit"
  /\ mg_futures' = Append(mg_futures,
                          NewFuture(PySlice([f \in MgFiles |-> f], mg_i, mg_i + mg_batch_size)))
  /\ mg_i' = mg_i + mg_batch_size
  /\ mg_pc' = IF InRange(mg_i + mg_batch_size, mg_n, mg_batch_size)
                THEN "submit" ELSE "wait"
  /\ UNCHANGED <<mg_n, mg_batch_size, mg_lock, header_written, files_processed,
                 total_rows, merged_content, mg_preset, mg_order, mg_collected,
                 mg_output, mg_result, mg_got>>
  /\ UNCHANGED mgFrame

\* a pool thread takes the oldest queued task
pool_start_task ==
  /\ \E b \in 1..Len(mg_futures) :
       /\ mg_futures[b].state = "queued"
       /\ \A c \in 1..(b - 1) : mg_futures[c].state # "queued"
       /\ Cardinality(MgRunning) < Min(pool_cap, mg_n)
       /\ mg_futures' = [mg_futures EXCEPT ![b].state = "running"]
  /\ UNCHANGED <<mg_pc, mg_i, mg_n, mg_batch_size, mg_lock, header_written,
                 files_processed, total_rows, merged_content, mg_preset, mg_order,
                 mg_collected, mg_output, mg_result, mg_got>>
  /\ UNCHANGED mgFrame

\* the task moves on to the next file of its batch, or to its return
NextFile(fu) ==
  [fu EXCEPT !.k = fu.k + 1, !.attempt = 0, !.err = "none", !.lines = <<>>,
             !.saw = FALSE, !.tmp = 0,
             !.pc = IF fu.k + 1 > Len(fu.files) THEN "return" ELSE "read"]

\* what process_csv_batch does with the value read_csv_from_s3 returned
AfterRead_OneLineOk(fu, csv_content) ==
  IF csv_content # None /\ csv_content # <<>>
    THEN LET lines == SplitLines(Strip(csv_content))
         IN  IF Len(lines) >= 1
               THEN [fu EXCEPT !.lines = lines \o <<lines[1]>>, !.pc = "lock",
                               !.attempt = 0, !.err = "none"]
               ELSE NextFile(fu)
    ELSE NextFile(fu)

AfterRead(fu, csv_content) ==
  IF csv_content # None /\ csv_content # <<>>
    THEN LET lines == SplitLines(Strip(csv_content))
         IN  IF Len(lines) >= 2
               THEN [fu EXCEPT !.lines = lines, !.pc = "lock",
                               !.attempt = 0, !.err = "none"]
               ELSE NextFile(fu)
    ELSE NextFile(fu)

\* one get_object call of read_csv_from_s3, with what follows it up to the lock
worker_read ==
  /\ \E b \in MgRunning :
       LET fu == mg_futures[b]
           f == fu.files[fu.k]
       IN  /\ fu.pc = "read"
           /\ \/ \E content \in ContentPool :
                   /\ mg_futures' = [mg_futures EXCEPT ![b] = AfterRead(fu, content)]
                   /\ mg_got' = [mg_got EXCEPT ![f] = LineCount(content)]
              \/ \E outcome \in ReadOutcomes \ {"ok"} :
                   IF outcome \in ReadPermanent \/ fu.attempt >= read_max_retries - 1
                     THEN /\ mg_futures' = [mg_futures EXCEPT ![b] = AfterRead(fu, None)]
                          /\ mg_got' = [mg_got EXCEPT ![f] = "null"]
                     ELSE \* time.sleep(0.5 * (attempt + 1)), then the next attempt
                          /\ mg_futures' = [mg_futures EXCEPT ![b].attempt = fu.attempt + 1,
                                                               ![b].err = outcome]
                          /\ UNCHANGED mg_got
  /\ UNCHANGED <<mg_pc, mg_i, mg_n, mg_batch_size, mg_lock, header_written,
                 files_processed, total_rows, merged_content, mg_preset, mg_order,
                 mg_collected, mg_output, mg_result>>
  /\ UNCHANGED mgFrame

\* `with lock:` entered and `if not header_written:` evaluated
worker_acquire_NoLock ==
  /\ \E b \in MgRunning :
       /\ mg_futures[b].pc = "lock"
       /\ mg_lock' = b
       /\ mg_futures' = [mg_futures EXCEPT ![b].saw = header_written, ![b].pc = "append"]
  /\ UNCHANGED <<mg_pc, mg_i, mg_n, mg_batch_size, header_written,
                 files_processed, total_rows, merged_content, mg_preset, mg_order,
                 mg_collected, mg_output, mg_result, mg_got>>
  /\ UNCHANGED mgFrame

worker_acquire ==
  /\ \E b \in MgRunning :
       /\ mg_futures[b].pc = "lock"
       /\ mg_lock = 0
       /\ mg_lock' = b
       /\ mg_futures' = [mg_futures EXCEPT ![b].saw = header_written, ![b].pc = "append"]
  /\ UNCHANGED <<mg_pc, mg_i, mg_n, mg_batch_size, header_written,
                 files_processed, total_rows, merged_content, mg_preset, mg_order,
                 mg_collected, mg_output, mg_result, mg_got>>
  /\ UNCHANGED mgFrame

worker_append_HeaderPerBatch ==
  /\ \E b \in MgRunning :
       LET fu == mg_futures[b]
           f == fu.files[fu.k]
           header == [text |-> fu.lines[1], kind |-> "header", file |-> f]
           data_line == [text |-> fu.lines[2], kind |-> "data", file |-> f]
       IN  /\ fu.pc = "append"
           /\ header_written' = TRUE
           /\ mg_futures' = [mg_futures EXCEPT
                ![b].content = (IF fu.content # <<>> THEN fu.content ELSE Append(fu.content, header))
                                 \o <<data_line>>,
                ![b].rows = fu.rows + 1,
                ![b].tmp = files_processed,
                ![b].pc = "count"]
  /\ UNCHANGED <<mg_pc, mg_i, mg_n, mg_batch_size, mg_lock,
                 files_processed, total_rows, merged_content, mg_preset, mg_order,
                 mg_collected, mg_output, mg_result, mg_got>>
  /\ UNCHANGED mgFrame

\* header (first time only) and data line appended to batch_content,
\* batch_rows += 1, and files_processed loaded for `files_processed += 1`
worker_append ==
  /\ \E b \in MgRunning :
       LET fu == mg_futures[b]
           f == fu.files[fu.k]
           header == [text |-> fu.lines[1], kind |-> "header", file |-> f]
           data_line == [text |-> fu.lines[2], kind |-> "data", file |-> f]
       IN  /\ fu.pc = "append"
           /\ header_written' = TRUE
           /\ mg_futures' = [mg_futures EXCEPT
                ![b].content = (IF fu.saw THEN fu.content ELSE Append(fu.content, header))
                                 \o <<data_line>>,
                ![b].rows = fu.rows + 1,
                ![b].tmp = files_processed,
                ![b].pc = "count"]
  /\ UNCHANGED <<mg_pc, mg_i, mg_n, mg_batch_size, mg_lock,
                 files_processed, total_rows, merged_content, mg_preset, mg_order,
                 mg_collected, mg_output, mg_result, mg_got>>
  /\ UNCHANGED mgFrame

worker_count_NoRelease ==
  /\ \E b \in MgRunning :
       /\ mg_futures[b].pc = "count"
       /\ files_processed' = mg_futures[b].tmp + 1
       /\ mg_lock' = IF mg_futures[b].k < Len(mg_futures[b].files) THEN mg_lock ELSE 0
       /\ mg_futures' = [mg_futures EXCEPT ![b] = NextFile(mg_futures[b])]
  /\ UNCHANGED <<mg_pc, mg_i, mg_n, mg_batch_size, header_written,
                 total_rows, merged_content, mg_preset, mg_order,
                 mg_collected, mg_output, mg_result, mg_got>>
  /\ UNCHANGED mgFrame

\* files_processed stored, the lock released, on to the next file
worker_count ==
  /\ \E b \in MgRunning :
       /\ mg_futures[b].pc = "count"
       /\ files_processed' = mg_futures[b].tmp + 1
       /\ mg_lock' = 0
       /\ mg_futures' = [mg_futures EXCEPT ![b] = NextFile(mg_futures[b])]
  /\ UNCHANGED <<mg_pc, mg_i, mg_n, mg_batch_size, header_written,
                 total_rows, merged_content, mg_preset, mg_order,
                 mg_collected, mg_output, mg_result, mg_got>>
  /\ UNCHANGED mgFrame

\* `return batch_content, batch_rows`: the future completes
worker_return ==
  /\ \E b \in MgRunning :
       /\ mg_futures[b].pc = "return"
       /\ mg_futures' = [mg_futures EXCEPT ![b].state = "finished"]
       \* the waiter that as_completed installs records the completion
       /\ mg_order' = IF mg_pc = "collect" THEN Append(mg_order, b) ELSE mg_order
  /\ UNCHANGED <<mg_pc, mg_i, mg_n, mg_batch_size, mg_lock, header_written,
                 files_processed, total_rows, merged_content, mg_preset,
                 mg_collected, mg_output, mg_result, mg_got>>
  /\ UNCHANGED mgFrame

\* as_completed(futures) is called: the futures already finished are
\* yielded first, in no particular order
merge_as_completed ==
  /\ mg_pc = "wait"
  /\ mg_preset' = MgFinished
  /\ mg_pc' = "collect"
  /\ UNCHANGED <<mg_i, mg_n, mg_batch_size, mg_futures, mg_lock, header_written,
                 files_processed, total_rows, merged_content, mg_order,
                 mg_collected, mg_output, mg_result, mg_got>>
  /\ UNCHANGED mgFrame

\* the futures as_completed may yield next
Yieldable ==
  IF mg_preset \ mg_collected # {}
    THEN mg_preset \ mg_collected
    ELSE IF mg_order = <<>> THEN {} ELSE {Head(mg_order)}

merge_collect_FirstOnly ==
  /\ mg_pc = "collect"
  /\ \E b \in Yieldable :
       /\ merged_content' = merged_content \o mg_futures[b].content
       /\ total_rows' = total_rows + mg_futures[b].rows
       /\ mg_collected' = mg_collected \cup {b}
       /\ mg_order' = IF b \in mg_preset THEN mg_order ELSE Tail(mg_order)
       /\ mg_pc' = "put"
  /\ UNCHANGED <<mg_i, mg_n, mg_batch_size, mg_futures, mg_lock, header_written,
                 files_processed, mg_preset, mg_output, mg_result, mg_got>>
  /\ UNCHANGED mgFrame

\* one iteration of `for future in as_completed(futures)`; after the last
\* one the executor is left and the output key is computed
merge_collect ==
  /\ mg_pc = "collect"
  /\ \E b \in Yieldable :
       /\ merged_content' = merged_content \o mg_futures[b].content
       /\ total_rows' = total_rows + mg_futures[b].rows
       /\ mg_collected' = mg_collected \cup {b}
       /\ mg_order' = IF b \in mg_preset THEN mg_order ELSE Tail(mg_order)
       /\ mg_pc' = IF mg_collected \cup {b} = 1..Len(mg_futures) THEN "put" ELSE "collect"
  /\ UNCHANGED <<mg_i, mg_n, mg_batch_size, mg_futures, mg_lock, header_written,
                 files_processed, mg_preset, mg_output, mg_result, mg_got>>
  /\ UNCHANGED mgFrame

\* put_object of the merged text, then the return (or the re-raise)
merge_put ==
  /\ mg_pc = "put"
  /\ \E outcome \in StoreOutcomes :
       IF outcome = "ok"
         THEN /\ mg_output' = merged_content
              /\ mg_pc' = "done"
              /\ mg_result' = [files_processed |-> files_processed, total_rows |-> total_rows]
         ELSE /\ mg_pc' = "raised"
              /\ mg_result' = "error"
              /\ UNCHANGED mg_output
  /\ UNCHANGED <<mg_i, mg_n, mg_batch_size, mg_futures, mg_lock, header_written,
                 files_processed, total_rows, merged_content, mg_preset, mg_order,
                 mg_collected, mg_got>>
  /\ UNCHANGED mgFrame

MgInit ==
  /\ mg_pc = "submit"
  /\ mg_n \in 1..MaxMergeN
  /\ mg_batch_size \in 1..MaxMergeBatch
  /\ mg_i = 0
  /\ mg_futures = <<>>
  /\ mg_lock = 0
  /\ header_written = FALSE
  /\ files_processed = 0
  /\ total_rows = 0
  /\ merged_content = <<>>
  /\ mg_preset = {}
  /\ mg_order = <<>>
  /\ mg_collected = {}
  /\ mg_output = "none"
  /\ mg_result = "none"
  /\ mg_got = [f \in MgFiles |-> "none"]

MgIdle ==
  /\ mg_pc = "idle"
  /\ mg_n = 0
  /\ mg_batch_size = 1
  /\ mg_i = 0
  /\ mg_futures = <<>>
  /\ mg_lock = 0
  /\ header_written = FALSE
  /\ files_processed = 0
  /\ total_rows = 0
  /\ merged_content = <<>>
  /\ mg_preset = {}
  /\ mg_order = <<>>
  /\ mg_collected = {}
  /\ mg_output = "none"
  /\ mg_result = "none"
  /\ mg_got = <<>>

-----------------------------------------------------------------------------
(* The results aggregator: lambda_handler of results_aggregator_lambda.py  *)

\* bound of the aggregator model
MaxResults == 2    \* len(parallel_results) ranges over 0..MaxResults

\* The entries of parallel_results, by what the loop body does with them:
\*   "ok"           Payload, statusCode 200, body a record with numeric counters
\*   "okBadField"   Payload, statusCode 200, body a record whose files_processed
\*                  is not a number
\*   "okNotRecord"  Payload, statusCode 200, body parses to something that is
\*                  not a record (no .get)
\*   "fail"         Payload, statusCode # 200, body a record
\*   "failNotRecord" Payload, statusCode # 200, body not a record
\*   "badJson"      Payload whose body json.loads rejects
\*   "noStatus"     Payload with a body and no statusCode
\*   "error"        no Payload body, an 'error' field
\*   "neither"      a record with neither a Payload body nor an 'error' field
\*   "notRecord"    an entry that does not support `in` (None, a number)
ResultKinds ==
  {"ok", "okBadField", "okNotRecord", "fail", "failNotRecord", "badJson",
   "noStatus", "error", "neither", "notRecord"}

ResultPool ==
  {[kind |-> k, files |-> 0, rows |-> 0] : k \in ResultKinds \ {"ok"}}
    \cup {[kind |-> "ok", files |-> 1, rows |-> 2]}

\* a / b of two ints, as the exact fraction <<numerator, denominator>>
PyTrueDiv(a, b) == <<a, b>>
\* q * k for a fraction q and an int k
FracTimes(q, k) == <<q[1] * k, q[2]>>
\* the int 0 of the `else 0` branches, as a fraction
FracZero == <<0, 1>>

\* the statements before the loop
aggregator_start ==
  /\ ag_pc = "start"
  /\ IF ~ag_has_dest
       THEN /\ ag_pc' = "done"          \* ValueError, caught at line 114
            /\ ag_status' = 500
       ELSE /\ ag_pc' = "loop"
            /\ UNCHANGED ag_status
  /\ UNCHANGED <<ag_has_dest, parallel_results, ag_i, successful_batches,
                 failed_batches, total_files_processed, ag_total_rows,
                 ag_summary, ag_puts>>
  /\ UNCHANGED agFrame

\* one iteration of `for result in parallel_results`
aggregator_result ==
  /\ ag_pc = "loop"
  /\ ag_i < Len(parallel_results)
  /\ LET result == parallel_results[ag_i + 1]
         k == result.kind
         \* line 42 ran
         succ == k \in {"ok", "okBadField", "okNotRecord"}
         \* lines 50, 57 and 65: each one that ran adds one
         failed == (IF k \in {"fail", "failNotRecord", "error"} THEN 1 ELSE 0)
                   + (IF k \in {"okBadField", "okNotRecord", "failNotRecord",
                                "badJson", "noStatus", "notRecord"}
                        THEN 1 ELSE 0)
     IN  /\ successful_batches' = successful_batches + (IF succ THEN 1 ELSE 0)
         /\ failed_batches' = failed_batches + failed
         /\ total_files_processed' =
              total_files_processed + (IF k = "ok" THEN result.files ELSE 0)
         /\ ag_total_rows' = ag_total_rows + (IF k = "ok" THEN result.rows ELSE 0)
  /\ ag_i' = ag_i + 1
  /\ UNCHANGED <<ag_pc, ag_has_dest, parallel_results, ag_summary, ag_status, ag_puts>>
  /\ UNCHANGED agFrame

\* success_rate of the summary (line 79), unguarded variant
SuccessRate_Unguarded(successful, results) ==
  FracTimes(PyTrueDiv(successful, Len(results)), 100)

\* success_rate of the summary (line 79)
SuccessRate(successful, results) ==
  IF results # <<>>
    THEN FracTimes(PyTrueDiv(successful, Len(results)), 100)
    ELSE FracZero

aggregator_report_FailOnPutError ==
  /\ ag_pc = "loop"
  /\ ag_i >= Len(parallel_results)
  /\ ag_summary' =
       [total_batches |-> Len(parallel_results),
        successful_batches |-> successful_batches,
        failed_batches |-> failed_batches,
        success_rate |-> SuccessRate(successful_batches, parallel_results),
        total_files_processed |-> total_files_processed,
        total_data_rows |-> ag_total_rows]
  /\ \E outcome \in StoreOutcomes :
       /\ ag_puts' = Append(ag_puts, outcome)
       /\ ag_status' = IF outcome = "ok" THEN 200 ELSE 500
  /\ ag_pc' = "done"
  /\ UNCHANGED <<ag_has_dest, parallel_results, ag_i, successful_batches,
                 failed_batches, total_files_processed, ag_total_rows>>
  /\ UNCHANGED agFrame

\* the statements after the loop: build the summary, write the report, return
aggregator_report ==
  /\ ag_pc = "loop"
  /\ ag_i >= Len(parallel_results)
  /\ LET rate == SuccessRate(successful_batches, parallel_results)
     IN  IF rate[2] = 0
           THEN \* ZeroDivisionError, caught at line 114
                /\ ag_status' = 500
                /\ UNCHANGED <<ag_summary, ag_puts>>
           ELSE /\ ag_summary' =
                     [total_batches |-> Len(parallel_results),
                      successful_batches |-> successful_batches,
                      failed_batches |-> failed_batches,
                      success_rate |-> rate,
                      total_files_processed |-> total_files_processed,
                      total_data_rows |-> ag_total_rows]
                \* put_object succeeds or raises; the failure is only logged
                /\ \E outcome \in StoreOutcomes : ag_puts' = Append(ag_puts, outcome)
                /\ ag_status' = 200
  /\ ag_pc' = "done"
  /\ UNCHANGED <<ag_has_dest, parallel_results, ag_i, successful_batches,
                 failed_batches, total_files_processed, ag_total_rows>>
  /\ UNCHANGED agFrame

RECURSIVE SeqsUpTo(_, _)
\* the sequences over S of length at most n
SeqsUpTo(S, n) ==
  IF n = 0 THEN {<<>>}
  ELSE LET shorter == SeqsUpTo(S, n - 1)
       IN  shorter \cup {Append(s, x) : s \in shorter, x \in S}

AgInit ==
  /\ ag_pc = "start"
  /\ ag_has_dest \in BOOLEAN
  /\ parallel_results \in SeqsUpTo(ResultPool, MaxResults)
  /\ ag_i = 0
  /\ successful_batches = 0
  /\ failed_batches = 0
  /\ total_files_processed = 0
  /\ ag_total_rows = 0
  /\ ag_summary = "none"
  /\ ag_status = 0
  /\ ag_puts = <<>>

AgIdle ==
  /\ ag_pc = "idle"
  /\ ag_has_dest = FALSE
  /\ parallel_results = <<>>
  /\ ag_i = 0
  /\ successful_batches = 0
  /\ failed_batches = 0
  /\ total_files_processed = 0
  /\ ag_total_rows = 0
  /\ ag_summary = "none"
  /\ ag_status = 0
  /\ ag_puts = <<>>

-----------------------------------------------------------------------------
(* lambda_handler of s3_file_mover_lambda.py and of csv_merge_lambda.py.   *)
(* The lister and the processing function are represented by the store     *)
(* calls they issue and by what they hand back to the handler.             *)

\* bound of the handler model
MaxListed == 2     \* the lister returns 0..MaxListed objects

Absent == "absent"   \* dict.get / os.environ.get returned None

\* bool(x) of a string or None
Truthy(x) == x # Absent /\ x # ""
\* a or b
PyOr(a, b) == IF Truthy(a) THEN a ELSE b

NoResponse ==
  [statusCode |-> 0, message |-> "none", error |-> "none", files_processed |-> -1]
\* the response built by the `except Exception` clause of the handler
ErrorResponse(e) ==
  [statusCode |-> 500, message |-> "Erro na execucao da Lambda", error |-> e,
   files_processed |-> -1]
OkResponse(msg, n) ==
  [statusCode |-> 200, message |-> msg, error |-> "none", files_processed |-> n]

BucketsRequired == "source_bucket e dest_bucket sao obrigatorios"

\* the statements before the listing, without the check of the buckets
handler_start_NoBucketCheck ==
  /\ hd_pc = "start"
  /\ hd_pc' = "list"
  /\ UNCHANGED <<hd_variant, hd_event, hd_env, hd_files, hd_calls,
                 hd_dest_written, hd_response>>
  /\ UNCHANGED hdFrame

\* the statements before the listing
handler_start ==
  /\ hd_pc = "start"
  /\ LET source_bucket == PyOr(hd_event.source_bucket, hd_env.SOURCE_BUCKET)
         dest_bucket == PyOr(hd_event.dest_bucket, hd_env.DEST_BUCKET)
     IN  IF ~Truthy(source_bucket) \/ ~Truthy(dest_bucket)
           THEN /\ hd_pc' = "done"
                /\ hd_response' = ErrorResponse(BucketsRequired)
           ELSE /\ hd_pc' = "list"
                /\ UNCHANGED hd_response
  /\ UNCHANGED <<hd_variant, hd_event, hd_env, hd_files, hd_calls, hd_dest_written>>
  /\ UNCHANGED hdFrame

NoFilesMessage ==
  IF hd_variant = "mover" THEN "Nenhum arquivo encontrado"
                          ELSE "Nenhum arquivo CSV encontrado"

\* the listing and the test of its result, without the early return
handler_list_NoEarlyReturn ==
  /\ hd_pc = "list"
  /\ hd_calls' = Append(hd_calls, "list")
  /\ \/ \E n \in 0..MaxListed :
          /\ hd_files' = n
          /\ hd_pc' = "process"
          /\ UNCHANGED hd_response
     \/ \E e \in ListPermanent :
          /\ hd_pc' = "done"
          /\ hd_response' = ErrorResponse(e)
          /\ UNCHANGED hd_files
  /\ UNCHANGED <<hd_variant, hd_event, hd_env, hd_dest_written>>
  /\ UNCHANGED hdFrame

\* files = get_files_with_retry(...) / get_csv_files_with_retry(...), which
\* issues listing calls only, and `if not files: return ...`
handler_list ==
  /\ hd_pc = "list"
  /\ hd_calls' = Append(hd_calls, "list")
  /\ \/ \E n \in 0..MaxListed :
          /\ hd_files' = n
          /\ IF n = 0
               THEN /\ hd_pc' = "done"
                    /\ hd_response' = OkResponse(NoFilesMessage, 0)
               ELSE /\ hd_pc' = "process"
                    /\ UNCHANGED hd_response
     \/ \E e \in ListPermanent :      \* the lister re-raised a permanent error
          /\ hd_pc' = "done"
          /\ hd_response' = ErrorResponse(e)
          /\ UNCHANGED hd_files
  /\ UNCHANGED <<hd_variant, hd_event, hd_env, hd_dest_written>>
  /\ UNCHANGED hdFrame

\* k copies of the one-element sequence <<x>>
Repeat(x, k) == [i \in 1..k |-> x]

\* results = process_files_in_batches(...) / merge_csv_files(...) and the
\* final return
handler_process ==
  /\ hd_pc = "process"
  /\ hd_pc' = "done"
  /\ IF hd_event.batch_size = 0
       THEN \* range() arg 3 must not be zero: ValueError before any store call
            /\ hd_response' = ErrorResponse("ValueError")
            /\ UNCHANGED <<hd_calls, hd_dest_written>>
       ELSE LET handled == IF hd_event.batch_size > 0 THEN hd_files ELSE 0
            IN  IF hd_variant = "mover"
                  THEN \* one move_file per object of every batch; it never raises
                       \E moved \in 0..handled :
                         /\ hd_calls' = hd_calls \o Repeat("copy", handled)
                                                 \o Repeat("delete", moved)
                         /\ hd_dest_written' = (hd_dest_written \/ moved > 0)
                         /\ hd_response' = OkResponse("Processamento concluido", moved)
                  ELSE \* one read per object, then the put of the merged content
                       \E valid \in 0..handled, put \in {"ok", "AccessDenied"} :
                         /\ hd_calls' = hd_calls \o Repeat("read", handled)
                                                 \o <<"put">>
                         /\ hd_dest_written' = (hd_dest_written \/ put = "ok")
                         /\ hd_response' =
                              IF put = "ok"
                                THEN OkResponse("Merge de CSVs concluido", valid)
                                ELSE ErrorResponse(put)
  /\ UNCHANGED <<hd_variant, hd_event, hd_env, hd_files>>
  /\ UNCHANGED hdFrame

HdInit ==
  /\ hd_pc = "start"
  /\ hd_variant \in {"mover", "merge"}
  /\ hd_event \in [source_bucket : {Absent, "", "src"},
                   dest_bucket : {Absent, "", "dst"},
                   batch_size : -1..2]
  /\ hd_env \in [SOURCE_BUCKET : {Absent, "src"}, DEST_BUCKET : {Absent, "dst"}]
  /\ hd_files = -1
  /\ hd_calls = <<>>
  /\ hd_dest_written = FALSE
  /\ hd_response = NoResponse

HdIdle ==
  /\ hd_pc = "idle"
  /\ hd_variant = "mover"
  /\ hd_event = [source_bucket |-> Absent, dest_bucket |-> Absent, batch_size |-> 1]
  /\ hd_env = [SOURCE_BUCKET |-> Absent, DEST_BUCKET |-> Absent]
  /\ hd_files = -1
  /\ hd_calls = <<>>
  /\ hd_dest_written = FALSE
  /\ hd_response = NoResponse

-----------------------------------------------------------------------------
(* process_files_in_batches and process_batch of the mover.  move_file is  *)
(* represented by what it hands back: True, False, or an exception.        *)

\* bounds of the mover batch model
MaxMoveN == 3      \* len(files) ranges over 0..MaxMoveN
MaxMoveBatch == 3  \* batch_size ranges over -1..MaxMoveBatch

MoveOutcomes == {"true", "false", "raise"}

\* the head of `for i in range(0, len(files), batch_size)` and the return
batches_next ==
  /\ pb_pc = "loop"
  /\ IF pb_batch_size = 0
       THEN /\ pb_pc' = "error"          \* range() arg 3 must not be zero
            /\ UNCHANGED <<pb_batch, pb_j, pb_success, pb_errors>>
       ELSE IF InRange(pb_i, Len(pb_files), pb_batch_size)
              THEN /\ pb_batch' = PySlice(pb_files, pb_i, pb_i + pb_batch_size)
                   /\ pb_j' = 0
                   /\ pb_success' = 0
                   /\ pb_errors' = 0
                   /\ pb_pc' = "batch"
              ELSE /\ pb_pc' = "done"
                   /\ UNCHANGED <<pb_batch, pb_j, pb_success, pb_errors>>
  /\ UNCHANGED <<pb_files, pb_batch_size, pb_i, success_count, error_count,
                 pb_sleeps, pb_moves>>
  /\ UNCHANGED pbFrame

\* one iteration of `for file_info in batch` that leaves the loop on a failure
process_file_AbortOnError ==
  /\ pb_pc = "batch"
  /\ pb_j < Len(pb_batch)
  /\ \E outcome \in MoveOutcomes :
       /\ pb_moves' = Append(pb_moves, [file |-> pb_batch[pb_j + 1], outcome |-> outcome])
       /\ IF outcome = "true"
            THEN /\ pb_success' = pb_success + 1
                 /\ pb_j' = pb_j + 1
                 /\ UNCHANGED pb_errors
            ELSE /\ pb_errors' = pb_errors + 1
                 /\ pb_j' = Len(pb_batch)
                 /\ UNCHANGED pb_success
  /\ UNCHANGED <<pb_pc, pb_files, pb_batch_size, pb_i, pb_batch, success_count,
                 error_count, pb_sleeps>>
  /\ UNCHANGED pbFrame

\* one iteration of `for file_info in batch`
process_file ==
  /\ pb_pc = "batch"
  /\ pb_j < Len(pb_batch)
  /\ \E outcome \in MoveOutcomes :
       /\ pb_moves' = Append(pb_moves, [file |-> pb_batch[pb_j + 1], outcome |-> outcome])
       /\ IF outcome = "true"
            THEN /\ pb_success' = pb_success + 1
                 /\ UNCHANGED pb_errors
            ELSE /\ pb_errors' = pb_errors + 1     \* else branch or except clause
                 /\ UNCHANGED pb_success
  /\ pb_j' = pb_j + 1
  /\ UNCHANGED <<pb_pc, pb_files, pb_batch_size, pb_i, pb_batch, success_count,
                 error_count, pb_sleeps>>
  /\ UNCHANGED pbFrame

\* process_batch returns; the rest of the body of the batch loop
batch_return ==
  /\ pb_pc = "batch"
  /\ pb_j >= Len(pb_batch)
  /\ success_count' = success_count + pb_success
  /\ error_count' = error_count + pb_errors
  /\ pb_sleeps' = IF pb_i + pb_batch_size < Len(pb_files) THEN pb_sleeps + 1
                                                           ELSE pb_sleeps
  /\ pb_i' = pb_i + pb_batch_size
  /\ pb_pc' = "loop"
  /\ UNCHANGED <<pb_files, pb_batch_size, pb_batch, pb_j, pb_success, pb_errors,
                 pb_moves>>
  /\ UNCHANGED pbFrame

PbInit ==
  /\ pb_pc = "loop"
  /\ \E n \in 0..MaxMoveN : pb_files = [k \in 1..n |-> k]
  /\ pb_batch_size \in -1..MaxMoveBatch
  /\ pb_i = 0
  /\ pb_batch = <<>>
  /\ pb_j = 0
  /\ pb_success = 0
  /\ pb_errors = 0
  /\ success_count = 0
  /\ error_count = 0
  /\ pb_sleeps = 0
  /\ pb_moves = <<>>

PbIdle ==
  /\ pb_pc = "idle"
  /\ pb_files = <<>>
  /\ pb_batch_size = 1
  /\ pb_i = 0
  /\ pb_batch = <<>>
  /\ pb_j = 0
  /\ pb_success = 0
  /\ pb_errors = 0
  /\ success_count = 0
  /\ error_count = 0
  /\ pb_sleeps = 0
  /\ pb_moves = <<>>

-----------------------------------------------------------------------------
(* The key remapping of process_batch: keys and prefixes are sequences of  *)
(* characters over a two-letter alphabet that holds the path separator.    *)

\* bounds of the key remapping model
MaxKeyLen == 4     \* source keys have at most MaxKeyLen characters
MaxPrefixLen == 2  \* the prefixes have at most MaxPrefixLen characters

KeyAlphabet == {"a", "/"}

\* str.startswith
StartsWith(s, prefix) ==
  /\ Len(s) >= Len(prefix)
  /\ SubSeq(s, 1, Len(prefix)) = prefix

RECURSIVE LStripChar(_, _)
\* str.lstrip(c) for a single character c
LStripChar(s, c) == IF s # <<>> /\ Head(s) = c THEN LStripChar(Tail(s), c) ELSE s

RECURSIVE RStripChar(_, _)
\* str.rstrip(c) for a single character c
RStripChar(s, c) ==
  IF s # <<>> /\ s[Len(s)] = c THEN RStripChar(SubSeq(s, 1, Len(s) - 1), c) ELSE s

\* source_key[len(source_prefix):]
DropPrefix(s, prefix) == SubSeq(s, Len(prefix) + 1, Len(s))

\* relative_key of process_batch
RelativeKey(source_key, source_prefix) ==
  IF source_prefix # <<>> /\ StartsWith(source_key, source_prefix)
    THEN LStripChar(DropPrefix(source_key, source_prefix), "/")
    ELSE source_key

\* dest_key of process_batch
DestKey(source_key, source_prefix, dest_prefix) ==
  IF dest_prefix # <<>>
    THEN RStripChar(dest_prefix, "/") \o Slash
           \o RelativeKey(source_key, source_prefix)
    ELSE RelativeKey(source_key, source_prefix)

\* the computation of dest_key for one object of the batch
compute_dest_key ==
  /\ kr_dest_key = None
  /\ kr_source_key # <<>>
  /\ kr_dest_key' = DestKey(kr_source_key, kr_source_prefix, kr_dest_prefix)
  /\ UNCHANGED <<kr_source_key, kr_source_prefix, kr_dest_prefix>>
  /\ UNCHANGED krFrame

\* a listed key is not empty and lies under the listing prefix
KrInit ==
  /\ kr_source_prefix \in SeqsUpTo(KeyAlphabet, MaxPrefixLen)
  /\ kr_dest_prefix \in SeqsUpTo(KeyAlphabet, MaxPrefixLen)
  /\ kr_source_key \in {k \in SeqsUpTo(KeyAlphabet, MaxKeyLen) :
                          k # <<>> /\ StartsWith(k, kr_source_prefix)}
  /\ kr_dest_key = None

KrIdle ==
  /\ kr_source_key = <<>>
  /\ kr_source_prefix = <<>>
  /\ kr_dest_prefix = <<>>
  /\ kr_dest_key = None

-----------------------------------------------------------------------------
(* The ThreadPoolExecutor of merge_csv_files with many batches: each task   *)
(* is reduced to its state, so that the pool limit can be reached.         *)

\* bounds of the pool model
MaxPoolN == 12      \* len(csv_files) ranges over 1..MaxPoolN
MaxPoolBatch == 2   \* batch_size ranges over 1..MaxPoolBatch

PoRunning == {b \in 1..Len(po_tasks) : po_tasks[b] = "running"}

\* max_workers of the executor
MaxWorkers(n_files) == Min(pool_cap, n_files)

\* `for i in range(0, len(csv_files), batch_size): executor.submit(...)`
pool_submit ==
  /\ po_pc = "submit"
  /\ po_tasks' = Append(po_tasks, "queued")
  /\ po_i' = po_i + po_batch_size
  /\ po_pc' = IF InRange(po_i + po_batch_size, po_n, po_batch_size)
                THEN "submit" ELSE "wait"
  /\ UNCHANGED <<po_n, po_batch_size>>
  /\ UNCHANGED poFrame

\* a worker thread takes the oldest queued task, whatever the number of threads
pool_start_Unbounded ==
  /\ \E b \in 1..Len(po_tasks) :
       /\ po_tasks[b] = "queued"
       /\ \A c \in 1..(b - 1) : po_tasks[c] # "queued"
       /\ po_tasks' = [po_tasks EXCEPT ![b] = "running"]
  /\ UNCHANGED <<po_pc, po_n, po_batch_size, po_i>>
  /\ UNCHANGED poFrame

\* a worker thread takes the oldest queued task; the executor keeps at most
\* max_workers threads
pool_start ==
  /\ \E b \in 1..Len(po_tasks) :
       /\ po_tasks[b] = "queued"
       /\ \A c \in 1..(b - 1) : po_tasks[c] # "queued"
       /\ Cardinality(PoRunning) < MaxWorkers(po_n)
       /\ po_tasks' = [po_tasks EXCEPT ![b] = "running"]
  /\ UNCHANGED <<po_pc, po_n, po_batch_size, po_i>>
  /\ UNCHANGED poFrame

\* process_csv_batch returns in some worker thread
pool_finish ==
  /\ \E b \in PoRunning : po_tasks' = [po_tasks EXCEPT ![b] = "finished"]
  /\ UNCHANGED <<po_pc, po_n, po_batch_size, po_i>>
  /\ UNCHANGED poFrame

PoInit ==
  /\ po_pc = "submit"
  /\ po_n \in 1..MaxPoolN
  /\ po_batch_size \in 1..MaxPoolBatch
  /\ po_i = 0
  /\ po_tasks = <<>>

PoIdle ==
  /\ po_pc = "idle"
  /\ po_n = 0
  /\ po_batch_size = 1
  /\ po_i = 0
  /\ po_tasks = <<>>

-----------------------------------------------------------------------------
(* One execution of the mover seen from the store: process_batch computes   *)
(* dest_key for each listed object and move_file copies, probes and deletes. *)
(* The content of an object is named after the key it was listed under.     *)

\* bounds of the store model
MaxStoreFiles == 2      \* 1..MaxStoreFiles objects are listed
MaxStoreKeyLen == 4     \* their keys have at most MaxStoreKeyLen characters
MaxStorePrefixLen == 2  \* source_prefix and dest_prefix have at most that many

\* results of a store call: success, a transient and a permanent ClientError
StCallOutcomes == {"ok", "SlowDown", "AccessDenied"}

RECURSIVE KeyLess(_, _)
\* the order in which the store lists keys (byte order, "/" before "a")
KeyLess(a, b) ==
  IF a = <<>> THEN b # <<>>
  ELSE IF b = <<>> THEN FALSE
  ELSE IF Head(a) = Head(b) THEN KeyLess(Tail(a), Tail(b))
  ELSE Head(a) = "/"

StObject(bucket, key) == {o \in store : o.bucket = bucket /\ o.key = key}
StPut(bucket, key, content) ==
  (store \ StObject(bucket, key))
    \cup {[bucket |-> bucket, key |-> key, content |-> content]}

\* source_key of the object being moved
StSourceKey == st_files[st_i]

\* `for file_info in batch:` with the computation of dest_key
mover_next ==
  /\ st_pc = "next"
  /\ st_i < Len(st_files)
  /\ st_i' = st_i + 1
  /\ st_dest_key' = DestKey(st_files[st_i + 1], st_source_prefix, st_dest_prefix)
  /\ st_dest_keys' = Append(st_dest_keys, st_dest_key')
  /\ st_attempt' = 0
  /\ st_pc' = "copy"
  /\ UNCHANGED <<st_files, st_source_prefix, st_dest_prefix, st_dest_bucket, store>>
  /\ UNCHANGED stFrame

\* the last batch is processed
mover_return ==
  /\ st_pc = "next"
  /\ st_i = Len(st_files)
  /\ st_pc' = "done"
  /\ UNCHANGED <<st_files, st_source_prefix, st_dest_prefix, st_dest_bucket,
                 st_i, st_attempt, st_dest_key, st_dest_keys, store>>
  /\ UNCHANGED stFrame

\* a failed call of move_file: give up on a permanent code or on the last
\* attempt, else run the cycle again
StAfterFailure(permanent) ==
  IF ~permanent /\ st_attempt < move_max_retries - 1
    THEN /\ st_attempt' = st_attempt + 1
         /\ st_pc' = "copy"
         /\ UNCHANGED st_dest_key
    ELSE /\ st_pc' = "next"
         /\ st_dest_key' = None
         /\ UNCHANGED st_attempt

\* copy_object with MetadataDirective COPY: the store refuses an empty key, a
\* missing source and a copy of an object onto itself
mover_copy ==
  /\ st_pc = "copy"
  /\ \E outcome \in StCallOutcomes :
       /\ outcome = "ok" =>
            /\ StObject("src", StSourceKey) # {}
            /\ st_dest_key # <<>>
            /\ ~(st_dest_bucket = "src" /\ st_dest_key = StSourceKey)
       /\ IF outcome = "ok"
            THEN /\ store' = StPut(st_dest_bucket, st_dest_key,
                                   (CHOOSE o \in StObject("src", StSourceKey) : TRUE).content)
                 /\ st_pc' = "head"
                 /\ UNCHANGED <<st_attempt, st_dest_key>>
            ELSE /\ StAfterFailure(outcome \in MovePermanent)
                 /\ UNCHANGED store
  /\ UNCHANGED <<st_files, st_source_prefix, st_dest_prefix, st_dest_bucket, st_i, st_dest_keys>>
  /\ UNCHANGED stFrame

\* head_object on the destination; any ClientError ends the attempt
mover_head ==
  /\ st_pc = "head"
  /\ \E outcome \in StCallOutcomes :
       /\ outcome = "ok" => StObject(st_dest_bucket, st_dest_key) # {}
       /\ IF outcome = "ok"
            THEN /\ st_pc' = "delete"
                 /\ UNCHANGED <<st_attempt, st_dest_key>>
            ELSE StAfterFailure(FALSE)
  /\ UNCHANGED <<st_files, st_source_prefix, st_dest_prefix, st_dest_bucket, st_i,
                 st_dest_keys, store>>
  /\ UNCHANGED stFrame

\* delete_object on the source, then `return True`
mover_delete ==
  /\ st_pc = "delete"
  /\ \E outcome \in StCallOutcomes :
       IF outcome = "ok"
         THEN /\ store' = store \ StObject("src", StSourceKey)
              /\ st_pc' = "next"
              /\ st_dest_key' = None
              /\ UNCHANGED st_attempt
         ELSE /\ StAfterFailure(outcome \in MovePermanent)
              /\ UNCHANGED store
  /\ UNCHANGED <<st_files, st_source_prefix, st_dest_prefix, st_dest_bucket, st_i, st_dest_keys>>
  /\ UNCHANGED stFrame

\* the listed keys are distinct objects under source_prefix, none a folder
\* marker, in listing order; each holds its own content
StListable(prefix) ==
  {k \in SeqsUpTo(KeyAlphabet, MaxStoreKeyLen) :
     k # <<>> /\ StartsWith(k, prefix) /\ k[Len(k)] # "/"}

StInit ==
  /\ st_source_prefix \in SeqsUpTo(KeyAlphabet, MaxStorePrefixLen)
  /\ st_dest_prefix \in SeqsUpTo(KeyAlphabet, MaxStorePrefixLen)
  /\ st_dest_bucket \in {"src", "dst"}
  /\ st_files \in {f \in SeqsUpTo(StListable(st_source_prefix), MaxStoreFiles) :
                     /\ f # <<>>
                     /\ \A k \in 1..(Len(f) - 1) : KeyLess(f[k], f[k + 1])}
  /\ store = {[bucket |-> "src", key |-> st_files[k], content |-> st_files[k]] :
                k \in 1..Len(st_files)}
  /\ st_pc = "next"
  /\ st_i = 0
  /\ st_attempt = 0
  /\ st_dest_key = None
  /\ st_dest_keys = <<>>

StIdle ==
  /\ st_pc = "idle"
  /\ st_files = <<>>
  /\ st_source_prefix = <<>>
  /\ st_dest_prefix = <<>>
  /\ st_dest_bucket = "dst"
  /\ st_i = 0
  /\ st_attempt = 0
  /\ st_dest_key = None
  /\ st_dest_keys = <<>>
  /\ store = {}

-----------------------------------------------------------------------------
(* Specifications, one per component *)

InitMove == MvInit /\ LsIdle /\ PtIdle /\ PlIdle /\ MgIdle /\ AgIdle /\ HdIdle /\ PbIdle /\ KrIdle /\ PoIdle /\ StIdle
NextMove ==
  \/ move_file_copy
  \/ move_file_head
  \/ move_file_delete
  \/ move_file_sleep
  \/ move_file_call
SpecMove == InitMove /\ [][NextMove]_vars

InitList == LsInit /\ MvIdle /\ PtIdle /\ PlIdle /\ MgIdle /\ AgIdle /\ HdIdle /\ PbIdle /\ KrIdle /\ PoIdle /\ StIdle
NextList ==
  \/ list_files_standard
  \/ list_files_with_pagination
  \/ list_files_by_time_range
  \/ list_backoff
SpecList == InitList /\ [][NextList]_vars

InitPart == PtInit /\ MvIdle /\ LsIdle /\ PlIdle /\ MgIdle /\ AgIdle /\ HdIdle /\ PbIdle /\ KrIdle /\ PoIdle /\ StIdle
NextPart ==
  \/ partition_start
  \/ partition_step
SpecPart == InitPart /\ [][NextPart]_vars

InitPlan == PlInit /\ MvIdle /\ LsIdle /\ PtIdle /\ MgIdle /\ AgIdle /\ HdIdle /\ PbIdle /\ KrIdle /\ PoIdle /\ StIdle
NextPlan ==
  \/ planner_start
  \/ planner_batch
  \/ planner_return
SpecPlan == InitPlan /\ [][NextPlan]_vars

InitMerge == MgInit /\ MvIdle /\ LsIdle /\ PtIdle /\ PlIdle /\ AgIdle /\ HdIdle /\ PbIdle /\ KrIdle /\ PoIdle /\ StIdle
NextMerge ==
  \/ merge_submit
  \/ pool_start_task
  \/ worker_read
  \/ worker_acquire
  \/ worker_append
  \/ worker_count
  \/ worker_return
  \/ merge_as_completed
  \/ merge_collect
  \/ merge_put
SpecMerge == InitMerge /\ [][NextMerge]_vars

InitAgg == AgInit /\ MvIdle /\ LsIdle /\ PtIdle /\ PlIdle /\ MgIdle /\ HdIdle /\ PbIdle /\ KrIdle /\ PoIdle /\ StIdle
NextAgg ==
  \/ aggregator_start
  \/ aggregator_result
  \/ aggregator_report
SpecAgg == InitAgg /\ [][NextAgg]_vars

InitHandler == HdInit /\ MvIdle /\ LsIdle /\ PtIdle /\ PlIdle /\ MgIdle /\ AgIdle /\ PbIdle /\ KrIdle /\ PoIdle /\ StIdle
NextHandler ==
  \/ handler_start
  \/ handler_list
  \/ handler_process
SpecHandler == InitHandler /\ [][NextHandler]_vars

InitBatches == PbInit /\ MvIdle /\ LsIdle /\ PtIdle /\ PlIdle /\ MgIdle /\ AgIdle /\ HdIdle /\ KrIdle /\ PoIdle /\ StIdle
NextBatches ==
  \/ batches_next
  \/ process_file
  \/ batch_return
SpecBatches == InitBatches /\ [][NextBatches]_vars

InitKey == KrInit /\ MvIdle /\ LsIdle /\ PtIdle /\ PlIdle /\ MgIdle /\ AgIdle /\ HdIdle /\ PbIdle /\ PoIdle /\ StIdle
NextKey ==
  \/ compute_dest_key
SpecKey == InitKey /\ [][NextKey]_vars

InitPool == PoInit /\ MvIdle /\ LsIdle /\ PtIdle /\ PlIdle /\ MgIdle /\ AgIdle /\ HdIdle /\ PbIdle /\ KrIdle /\ StIdle
NextPool ==
  \/ pool_submit
  \/ pool_start
  \/ pool_finish
SpecPool == InitPool /\ [][NextPool]_vars

InitStore == StInit /\ MvIdle /\ LsIdle /\ PtIdle /\ PlIdle /\ MgIdle /\ AgIdle /\ HdIdle /\ PbIdle /\ KrIdle /\ PoIdle
NextStore ==
  \/ mover_next
  \/ mover_copy
  \/ mover_head
  \/ mover_delete
  \/ mover_return
SpecStore == InitStore /\ [][NextStore]_vars


-----------------------------------------------------------------------------
(* Claims about move_file *)

MvIsOp(op) == {k \in 1..Len(mv_log) : mv_log[k].op = op}
MvOkAt(k, op) ==
  /\ k >= 1
  /\ mv_log[k].op = op
  /\ mv_log[k].outcome = "ok"

\* C1: a delete of the source object is issued only after, within the same
\* attempt, the copy call succeeded and the head probe on the destination
\* succeeded; no delete is issued in an attempt whose copy or probe failed.
C1_DeleteOnlyAfterVerifiedCopy ==
  \A k \in MvIsOp("delete") :
    /\ k >= 3
    /\ MvOkAt(k - 1, "head") /\ mv_log[k - 1].attempt = mv_log[k].attempt
    /\ MvOkAt(k - 2, "copy") /\ mv_log[k - 2].attempt = mv_log[k].attempt
    /\ \A j \in 1..(k - 1) :
         (mv_log[j].attempt = mv_log[k].attempt /\ mv_log[j].op \in {"copy", "head"})
           => mv_log[j].outcome = "ok"

\* a delete was issued in the second attempt, after a failed first attempt
C1_Witness ==
  \E k \in MvIsOp("delete") : mv_log[k].attempt = 1 /\ mv_result = TRUE

\* C2: when every copy succeeds and every verification probe fails,
\* move_file returns false having issued exactly 2 copy calls and no
\* delete call, and the source object is still present.
C2_AllProbesFail ==
  /\ mv_pc = "done"
  /\ \A k \in MvIsOp("copy") : mv_log[k].outcome = "ok"
  /\ \A k \in MvIsOp("head") : mv_log[k].outcome # "ok"
  /\ MvIsOp("copy") # {}

C2_ProbeFailureKeepsSource ==
  C2_AllProbesFail =>
    /\ mv_result = FALSE
    /\ Cardinality(MvIsOp("copy")) = 2
    /\ Cardinality(MvIsOp("head")) = 2
    /\ MvIsOp("delete") = {}
    /\ srcPresent

C2_Witness ==
  /\ C2_AllProbesFail
  /\ Cardinality(MvIsOp("head")) = 2
  /\ mv_result = FALSE

\* C15: when a copy, a verification probe or a delete of move_file fails with
\* a permanent error (NoSuchKey, NoSuchBucket, AccessDenied), move_file
\* returns False without retrying: no copy call follows that error.
C15_PermanentErrorNoRetry ==
  \A k \in MvIsOp("copy") \cup MvIsOp("head") \cup MvIsOp("delete") :
    mv_log[k].outcome \in MovePermanent =>
      /\ \A j \in MvIsOp("copy") : j <= k
      /\ mv_pc = "done"
      /\ mv_result = FALSE

\* C17: the second copy-verify cycle of move_file is always preceded by the
\* backoff sleep of 0.5 * 1 seconds, whatever made the first attempt fail.
C17_RetryAfterBackoff ==
  \A k \in MvIsOp("copy") :
    mv_log[k].attempt > 0 =>
      /\ k > 1
      /\ mv_log[k - 1].op = "sleep"
      /\ mv_log[k - 1].outcome = mv_log[k].attempt

\* the calls of one kind recorded in a log of move_file
MvOps(log, op) == {k \in 1..Len(log) : log[k].op = op}
\* in that log every copy and every probe succeeded and every delete failed
\* with a transient error
MvEveryDeleteFailed(log) ==
  /\ MvOps(log, "delete") # {}
  /\ \A k \in MvOps(log, "copy") \cup MvOps(log, "head") : log[k].outcome = "ok"
  /\ \A k \in MvOps(log, "delete") : log[k].outcome \notin MovePermanent \cup {"ok"}

\* C28: move_file returns true exactly when a delete of the source succeeded
\* (after a confirmed copy); when copy and probe succeed and the delete fails
\* with a transient error on every attempt it returns false after the cycle
\* ran twice, with the object in both the source and the destination; a later
\* move of the same object whose delete succeeds leaves it only in the
\* destination.
C28_TrueIffDeleted ==
  mv_pc = "done" =>
    /\ (mv_result = TRUE) <=>
          (\E k \in MvOps(mv_log, "delete") :
             /\ mv_log[k].outcome = "ok"
             /\ MvOkAt(k - 1, "head") /\ MvOkAt(k - 2, "copy"))
    /\ MvEveryDeleteFailed(mv_log) =>
          /\ mv_result = FALSE
          /\ Cardinality(MvOps(mv_log, "copy")) = 2
          /\ Cardinality(MvOps(mv_log, "delete")) = 2
          /\ srcPresent /\ dstPresent
    /\ (mv_calls > 0 /\ MvEveryDeleteFailed(mv_prev_log) /\ mv_result = TRUE) =>
          (~srcPresent /\ dstPresent)

\* the first call failed on both deletes, the second call moved the object
C28_Witness ==
  /\ mv_pc = "done"
  /\ mv_calls = 1
  /\ MvEveryDeleteFailed(mv_prev_log)
  /\ Cardinality(MvOps(mv_prev_log, "delete")) = 2
  /\ mv_result = TRUE
  /\ ~srcPresent /\ dstPresent

-----------------------------------------------------------------------------
(* Claims about merge_csv_files *)

MgValid == {f \in MgFiles : mg_got[f] \in {"two", "more"}}
HeaderLines(ls) == {k \in 1..Len(ls) : ls[k].kind = "header"}
DataLines(ls) == {k \in 1..Len(ls) : ls[k].kind = "data"}
\* the header lines held in the batch_content of the tasks
ContributedHeaders ==
  {<<b, k>> \in (1..Len(mg_futures)) \X (1..(2 * MaxMergeN)) :
     k <= Len(mg_futures[b].content) /\ mg_futures[b].content[k].kind = "header"}

\* C3: for N >= 1 objects that each hold a valid 2-line CSV, any batch size
\* >= 1 and every interleaving and completion order of the batch workers,
\* the written object has the header as its first line, followed by
\* exactly N data lines and nothing else.
C3_HeaderFirstThenData ==
  (mg_pc = "done" /\ \A f \in MgFiles : mg_got[f] = "two") =>
    /\ Len(mg_output) = mg_n + 1
    /\ mg_output[1].kind = "header"
    /\ \A k \in 2..Len(mg_output) : mg_output[k].kind = "data"

\* C4: under every interleaving the header line is contributed at most once
\* across all batches; at the end the output holds exactly one header line
\* if at least one valid object was processed and none otherwise.
C4_HeaderOnce ==
  /\ Cardinality(ContributedHeaders) <= 1
  /\ Cardinality(HeaderLines(merged_content)) <= 1
  /\ mg_pc = "done" =>
       Cardinality(HeaderLines(mg_output)) = (IF MgValid # {} THEN 1 ELSE 0)

\* two batches both contributed lines, and the output was written
C4_Witness ==
  /\ mg_pc = "done"
  /\ Len(mg_futures) >= 2
  /\ \A b \in 1..2 : mg_futures[b].content # <<>>
  /\ Cardinality(HeaderLines(mg_output)) = 1

\* C5: when merge_csv_files returns, files_processed = total_rows = the
\* number of listed objects that were readable with at least 2 lines = the
\* number of data lines written; every listed object is handled by exactly
\* one batch worker.
C5_CountersAgree ==
  mg_pc = "done" =>
    /\ mg_result.files_processed = Cardinality(MgValid)
    /\ mg_result.total_rows = Cardinality(MgValid)
    /\ Cardinality(DataLines(mg_output)) = Cardinality(MgValid)
    /\ \A f \in MgValid :
         Cardinality({k \in DataLines(mg_output) : mg_output[k].file = f}) = 1
    /\ \A f \in MgFiles :
         /\ mg_got[f] # "none"
         /\ Cardinality({b \in 1..Len(mg_futures) : f \in Range(mg_futures[b].files)}) = 1

\* three objects in two batches, one of them invalid, merged and counted
C5_Witness ==
  /\ mg_pc = "done"
  /\ mg_n = 3
  /\ mg_batch_size = 2
  /\ Cardinality(MgValid) = 2
  /\ mg_result.files_processed = 2

\* the tasks that are inside the `with lock:` block
MgInCritical == {b \in MgRunning : mg_futures[b].pc \in {"append", "count"}}

\* a step that changes the header flag or the counter is a step of the task
\* that holds the lock
MgSharedChangedByHolder ==
  (header_written' # header_written \/ files_processed' # files_processed) =>
    /\ mg_lock \in MgInCritical
    /\ mg_futures'[mg_lock].pc # mg_futures[mg_lock].pc

\* C22: at most one batch worker is inside the critical section; a worker
\* reads or writes header_written and files_processed only while it holds
\* the lock; no worker reads from the store, or waits for a read retry,
\* while it holds the lock.
C22_LockDiscipline ==
  /\ [](/\ Cardinality(MgInCritical) <= 1
        /\ \A b \in MgInCritical : mg_lock = b
        /\ mg_lock # 0 => mg_lock \in MgInCritical
        /\ \A b \in MgRunning : mg_futures[b].pc = "read" => mg_lock # b)
  /\ [][MgSharedChangedByHolder]_vars

\* one task is inside the critical section while two others are both in the
\* middle of a read retry
C22_Witness ==
  /\ Cardinality(MgInCritical) = 1
  /\ Cardinality({b \in MgRunning : mg_futures[b].pc = "read"
                                     /\ mg_futures[b].attempt = 1}) = 2

RECURSIVE ContentLen(_)
\* the number of lines held by the batch_content of the given tasks
ContentLen(futures) ==
  IF futures = <<>> THEN 0 ELSE Len(Head(futures).content) + ContentLen(Tail(futures))

\* the put of the merged object is being issued or has been issued
MgAtPut == mg_pc \in {"put", "done", "raised"}

\* C23: the put of the merged object is issued only after every submitted
\* batch task has completed, in whatever order they completed; it is issued
\* once; the written content holds the contribution of every batch.
C23_PutAfterAllBatches ==
  /\ [](MgAtPut =>
         /\ ~InRange(mg_i, mg_n, mg_batch_size)
         /\ MgFinished = 1..Len(mg_futures)
         /\ mg_collected = MgFinished
         /\ Len(merged_content) = ContentLen(mg_futures)
         /\ \A b \in 1..Len(mg_futures) :
              Range(mg_futures[b].content) \subseteq Range(merged_content)
         /\ mg_pc = "done" => mg_output = merged_content)
  /\ [][(MgAtPut' /\ mg_pc' # mg_pc) =>
          \/ ~MgAtPut /\ mg_pc' = "put"
          \/ mg_pc = "put" /\ mg_pc' \in {"done", "raised"}]_vars

\* the merged object was written with the lines of the second batch ahead
\* of the lines of the first
C23_Witness ==
  /\ mg_pc = "done"
  /\ Len(mg_futures) = 2
  /\ mg_futures[1].content # <<>>
  /\ mg_futures[2].content # <<>>
  /\ mg_output[1].file \in Range(mg_futures[2].files)

\* the objects that were read and found invalid: null or fewer than 2 lines
MgInvalid == {f \in MgFiles : mg_got[f] \in {"null", "short"}}

\* no line of the given sequence comes from the object f
MgNoLineOf(ls, f) == \A k \in 1..Len(ls) : ls[k].file # f

\* a step in which an object is found invalid leaves the shared state and
\* every batch_content as they were
MgInvalidChangesNothing ==
  (\E f \in MgFiles : mg_got[f] = "none" /\ mg_got'[f] \in {"null", "short"}) =>
    /\ UNCHANGED <<header_written, files_processed, total_rows, merged_content>>
    /\ \A b \in 1..Len(mg_futures) :
         /\ mg_futures'[b].content = mg_futures[b].content
         /\ mg_futures'[b].rows = mg_futures[b].rows

\* C24: an object whose content has fewer than 2 lines, or whose read gives
\* up (read_csv_from_s3 makes at most 2 get_object calls, a second one only
\* after a non-permanent error, and returns None), contributes no line and
\* changes neither files_processed, total_rows nor header_written; the
\* other objects of its batch and of the other batches are still processed.
C24_InvalidObjectsSkipped ==
  /\ [](/\ \A b \in MgRunning :
             mg_futures[b].pc = "read" =>
               /\ mg_futures[b].attempt < read_max_retries
               /\ mg_futures[b].attempt > 0 =>
                    mg_futures[b].err \in ReadOutcomes \ (ReadPermanent \cup {"ok"})
        /\ \A f \in MgInvalid :
             /\ MgNoLineOf(merged_content, f)
             /\ \A b \in 1..Len(mg_futures) : MgNoLineOf(mg_futures[b].content, f)
        /\ mg_pc = "done" =>
             /\ \A f \in MgFiles : mg_got[f] # "none"
             /\ \A f \in MgValid : ~MgNoLineOf(mg_output, f)
             /\ \A f \in MgInvalid : MgNoLineOf(mg_output, f))
  /\ [][MgInvalidChangesNothing]_vars

\* in a batch of two the first object could not be read, the second was
\* merged; an object of the other batch was too short
C24_Witness ==
  /\ mg_pc = "done"
  /\ mg_n = 3
  /\ mg_batch_size = 2
  /\ mg_got = <<"null", "two", "short">>
  /\ Len(mg_output) = 2

-----------------------------------------------------------------------------
(* Claims about the listing with retry *)

LsCount(event) == Cardinality({k \in 1..Len(ls_trace) : ls_trace[k] = event})
LsNoError == LsCount("error") = 0

\* C6: if every listing strategy returns zero objects on every call and no
\* call fails, the lister returns an empty sequence without raising, after
\* 3 attempts: 3 primary listings, 1 manual-pagination fallback (first
\* attempt) and 1 time-windowed fallback (second attempt).
C6_EmptyListingReturnsEmpty ==
  /\ LsNoError => ls_pc # "raised"
  /\ LsCount("primary") <= 3
  /\ (LsNoError /\ ls_pc = "returned" /\ ls_result = <<>>) =>
       ls_trace = <<"primary", "manual", "sleep", "primary", "time", "sleep", "primary">>

C6_Witness ==
  /\ ls_pc = "returned"
  /\ ls_result = <<>>
  /\ LsNoError
  /\ ls_variant = "merge"

\* C7: if the first listing call fails with bucket-not-found, the lister
\* raises that error at once: one attempt, no fallback strategy, no sleep.
C7_BucketNotFoundRaisesAtOnce ==
  ls_first = "NoSuchBucket" =>
    /\ ls_pc = "raised"
    /\ ls_result = "NoSuchBucket"
    /\ ls_attempt = 0
    /\ ls_trace = <<"primary", "error">>

C7_Witness ==
  /\ ls_first = "NoSuchBucket"
  /\ ls_pc = "raised"

\* C8: whenever a store call made during listing, in any strategy and on
\* any attempt, fails with bucket-not-found or access-denied, the lister
\* propagates that error at once: no listing call and no sleep follows it.
C8_PermanentErrorPropagates ==
  /\ ls_permErr # "none" => ls_pc = "raised"
  /\ ~ls_afterPerm

LsLast == ls_returns[Len(ls_returns)]
LsEmptyPrimary(a) == [strategy |-> "primary", attempt |-> a, count |-> 0]

\* C18: every attempt starts with the primary listing; the manual-pagination
\* fallback runs only in the first attempt and only after that attempt's
\* primary listing returned no object; the time-windowed fallback runs only
\* in the second attempt and only after that attempt's primary listing
\* returned no object; the third attempt runs the primary listing alone; a
\* non-empty result of any strategy is returned at once, with no listing
\* call or sleep after it.
C18_StrategyOrder ==
  /\ \A k \in 1..Len(ls_returns) :
       LET r == ls_returns[k]
       IN  /\ r.strategy = "primary" =>
                r.attempt = (IF k = 1 THEN 0 ELSE ls_returns[k - 1].attempt + 1)
           /\ r.strategy = "manual" =>
                k > 1 /\ ls_returns[k - 1] = LsEmptyPrimary(0) /\ r.attempt = 0
           /\ r.strategy = "time" =>
                k > 1 /\ ls_returns[k - 1] = LsEmptyPrimary(1) /\ r.attempt = 1
           /\ r.count > 0 =>
                /\ k = Len(ls_returns)
                /\ ls_pc = "returned"
                /\ Len(ls_result) = r.count
                /\ ls_trace[Len(ls_trace)] # "sleep"
  /\ ls_pc = "primary" =>
       (ls_returns = <<>> /\ ls_attempt = 0) \/ (LsLast.attempt = ls_attempt - 1)
  /\ ls_pc = "manual" => ls_attempt = 0 /\ LsLast = LsEmptyPrimary(0)
  /\ ls_pc = "time" => ls_attempt = 1 /\ LsLast = LsEmptyPrimary(1)

\* both fallbacks ran and the third primary listing found objects
C18_Witness ==
  /\ ls_pc = "returned"
  /\ Len(ls_returns) = 5
  /\ ls_returns[2].strategy = "manual"
  /\ ls_returns[4].strategy = "time"
  /\ ls_returns[5] = [strategy |-> "primary", attempt |-> 2, count |-> 2]

LsRaisedIn(a) ==
  \E k \in 1..Len(ls_returns) : ls_returns[k].attempt = a /\ ls_returns[k].count = -1

LsEveryAttemptRaised ==
  /\ ls_pc \in {"returned", "raised"}
  /\ ls_permErr = "none"
  /\ \A a \in 0..ls_attempt : LsRaisedIn(a)

\* C19: when every attempt ends with a transient store error, the lister
\* makes exactly 3 attempts, sleeps after the first and the second only,
\* and returns an empty sequence without raising.
C19_TransientErrorsExhaust ==
  LsEveryAttemptRaised =>
    /\ ls_pc = "returned"
    /\ ls_result = <<>>
    /\ ls_attempt = list_max_retries - 1
    /\ LsCount("primary") = 3
    /\ LsCount("sleep") = 2
    /\ ls_trace[Len(ls_trace)] = "error"
    /\ \A k \in 1..Len(ls_trace) : ls_trace[k] = "sleep" => ls_trace[k - 1] = "error"

\* three attempts failed, the first one in the manual-pagination fallback
C19_Witness ==
  /\ LsEveryAttemptRaised
  /\ ls_pc = "returned"
  /\ ls_returns[2] = [strategy |-> "manual", attempt |-> 0, count |-> -1]
  /\ Len(ls_returns) = 4

LsNoMarker(files) == \A k \in 1..Len(files) : ~EndsWith(files[k].Key, Slash)

\* C20: with max_files > 0 and a store that serves at most the requested
\* number of entries, the sequence the lister returns holds at most
\* max_files records and no key that ends in '/'; inside the
\* manual-pagination loop this holds after every page, and the loop goes on
\* only after a truncated page that left the files under the cap.
C20_CapAndNoMarkers ==
  /\ ls_pc = "returned" => Len(ls_result) <= ls_max_files /\ LsNoMarker(ls_result)
  /\ ls_pc = "manual" =>
       /\ Len(ls_files) <= ls_max_files
       /\ LsNoMarker(ls_files)
       /\ ls_pageNo > 0 => ls_truncated /\ Len(ls_files) < ls_max_files

\* the manual pagination returned a full list after a second page
C20_Witness ==
  /\ ls_pc = "returned"
  /\ Len(ls_result) = ls_max_files
  /\ LsLast.strategy = "manual"
  /\ ls_max_files = 2
  /\ LsCount("error") = 0

-----------------------------------------------------------------------------
(* Claims about the batch loop *)

RECURSIVE Flatten(_)
Flatten(ss) == IF ss = <<>> THEN <<>> ELSE Head(ss) \o Flatten(Tail(ss))

\* the least k with k * b >= n, for n >= 0 and b > 0
CeilOf(n, b) == CHOOSE k \in 0..n : k * b >= n /\ (k = 0 \/ (k - 1) * b < n)

\* C9: for N objects and batch size B > 0 the slices files[i:i+B] cover all
\* N elements exactly once, in order, in exactly ceil(N/B) batches, each of
\* size at most B (and at least 1), the last of size N - B*(ceil(N/B)-1).
C9_PartitionCovers ==
  (pt_pc = "done" /\ pt_batch_size > 0) =>
    LET N == Len(pt_files)
        B == pt_batch_size
        K == CeilOf(N, B)
    IN  /\ Flatten(pt_batches) = pt_files
        /\ Len(pt_batches) = K
        /\ \A b \in 1..Len(pt_batches) :
             Len(pt_batches[b]) >= 1 /\ Len(pt_batches[b]) <= B
        /\ K > 0 => Len(pt_batches[K]) = N - B * (K - 1)

C9_Witness ==
  /\ pt_pc = "done"
  /\ Len(pt_files) = 5
  /\ pt_batch_size = 2
  /\ Len(pt_batches) = 3
  /\ Len(pt_batches[3]) = 1

-----------------------------------------------------------------------------
(* Claims about the planner *)

\* C10: for totalFiles >= 0 and filesPerBatch > 0 the planner returns
\* exactly ceil(totalFiles/filesPerBatch) descriptors; descriptor i (0-based)
\* has batch_number i+1 and covers [i*fpb, min((i+1)*fpb, totalFiles)); the
\* ranges are non-empty, contiguous, disjoint and cover [0, totalFiles).
C10_PlannerRanges ==
  (pl_pc = "done" /\ pl_has_bucket /\ pl_files_per_batch > 0) =>
    LET T == pl_total_files
        F == pl_files_per_batch
        K == CeilOf(T, F)
    IN  /\ pl_status = 200
        /\ Len(pl_batches) = K
        /\ \A n \in 1..Len(pl_batches) :
             /\ pl_batches[n].batch_number = n
             /\ pl_batches[n].batch_start_index = (n - 1) * F
             /\ pl_batches[n].batch_end_index = Min(n * F, T)
             /\ pl_batches[n].batch_start_index < pl_batches[n].batch_end_index
             /\ n > 1 => pl_batches[n].batch_start_index = pl_batches[n - 1].batch_end_index
        /\ K > 0 => pl_batches[1].batch_start_index = 0 /\ pl_batches[K].batch_end_index = T

\* 5 files in batches of 2: [0,2), [2,4), [4,5)
C10_Witness ==
  /\ pl_pc = "done"
  /\ pl_total_files = 5
  /\ pl_files_per_batch = 2
  /\ Len(pl_batches) = 3
  /\ pl_batches[3].batch_end_index = 5

-----------------------------------------------------------------------------
(* Claims about the results aggregator *)

\* C11: with a destination bucket, an empty parallel_results array makes the
\* aggregator return 200 (no division error) with total_batches,
\* successful_batches, failed_batches and success_rate all 0; for a non-empty
\* array success_rate is successful_batches / total_batches * 100 and lies
\* in [0, 100].
C11_SuccessRate ==
  (ag_pc = "done" /\ ag_has_dest) =>
    /\ ag_status = 200
    /\ ag_summary.total_batches = Len(parallel_results)
    /\ LET rate == ag_summary.success_rate
       IN  /\ rate[2] > 0
           /\ IF parallel_results = <<>>
                THEN /\ ag_summary.total_batches = 0
                     /\ ag_summary.successful_batches = 0
                     /\ ag_summary.failed_batches = 0
                     /\ rate[1] = 0
                ELSE /\ rate[1] * ag_summary.total_batches
                          = ag_summary.successful_batches * 100 * rate[2]
                     /\ 0 <= rate[1]
                     /\ rate[1] <= 100 * rate[2]

\* an empty array has been aggregated
C11_Witness ==
  /\ ag_pc = "done"
  /\ ag_has_dest
  /\ parallel_results = <<>>
  /\ ag_status = 200
  /\ ag_summary.success_rate = FracZero

\* C25: every entry of parallel_results, malformed ones included, counts as
\* exactly one success or one failure: after each entry
\* successful_batches + failed_batches is the number of entries handled,
\* and in the summary it equals total_batches.
C25_EachEntryCountedOnce ==
  /\ ag_pc = "loop" => successful_batches + failed_batches = ag_i
  /\ (ag_pc = "done" /\ ag_status = 200) =>
       ag_summary.successful_batches + ag_summary.failed_batches
         = ag_summary.total_batches

\* C26: whatever the outcome of the put_object that persists the report, the
\* aggregator (given a destination bucket) returns status 200 with the
\* statistics it has accumulated; the put is attempted exactly once and its
\* failure never gives a 500 response.
C26_ReportWriteFailureTolerated ==
  (ag_pc = "done" /\ ag_has_dest) =>
    /\ ag_status = 200
    /\ Len(ag_puts) = 1
    /\ ag_summary.total_batches = Len(parallel_results)
    /\ ag_summary.successful_batches = successful_batches
    /\ ag_summary.failed_batches = failed_batches
    /\ ag_summary.total_files_processed = total_files_processed
    /\ ag_summary.total_data_rows = ag_total_rows
    /\ ag_summary.success_rate = SuccessRate(successful_batches, parallel_results)

\* the put of the report was refused after two results were aggregated
C26_Witness ==
  /\ ag_pc = "done"
  /\ ag_puts = <<"AccessDenied">>
  /\ ag_status = 200
  /\ Len(parallel_results) = 2
  /\ ag_summary.successful_batches = 1
  /\ ag_summary.total_files_processed = 1

-----------------------------------------------------------------------------
(* Claims about the handlers *)

\* C12: when the listing of a merge invocation finds no CSV object, the
\* handler returns 200 with files_processed = 0 and the no-files message,
\* and no put is issued: the destination bucket is unchanged.
C12_NoFilesNoWrite ==
  (hd_variant = "merge" /\ hd_files = 0) =>
    /\ hd_pc = "done"
    /\ hd_response = OkResponse("Nenhum arquivo CSV encontrado", 0)
    /\ \A i \in 1..Len(hd_calls) : hd_calls[i] = "list"
    /\ ~hd_dest_written

\* a merge invocation has listed nothing and returned
C12_Witness ==
  /\ hd_variant = "merge"
  /\ hd_pc = "done"
  /\ hd_files = 0
  /\ hd_calls = <<"list">>
  /\ hd_response.statusCode = 200

HdBucketMissing ==
  \/ ~Truthy(PyOr(hd_event.source_bucket, hd_env.SOURCE_BUCKET))
  \/ ~Truthy(PyOr(hd_event.dest_bucket, hd_env.DEST_BUCKET))

C27_NonPositiveBatchSizeFails ==
  /\ (hd_pc = "done" /\ hd_files > 0 /\ hd_event.batch_size <= 0) =>
       /\ hd_response.statusCode = 500
       /\ \A i \in 1..Len(hd_calls) : hd_calls[i] = "list"
       /\ ~hd_dest_written
  /\ (pl_pc = "done" /\ pl_files_per_batch <= 0) =>
       /\ pl_status = 500
       /\ pl_batches = <<>>

-----------------------------------------------------------------------------
(* Claims about the batches of the mover *)

MovedTrue == {k \in 1..Len(pb_moves) : pb_moves[k].outcome = "true"}

\* C14: for batch_size > 0 and any pattern of move_file results (True, False,
\* exception) the orchestrator calls move_file once per listed object, in
\* list order, skipping nothing after a failure, and returns with
\* success_count + error_count = N and success_count = the number of calls
\* that returned True.
C14_OneMovePerObject ==
  pb_batch_size > 0 =>
    /\ pb_pc # "error"
    /\ Len(pb_moves) <= Len(pb_files)
    /\ \A k \in 1..Len(pb_moves) : pb_moves[k].file = pb_files[k]
    /\ pb_pc = "batch" => Len(pb_moves) = pb_i + pb_j
    /\ pb_pc = "loop" => Len(pb_moves) = Min(pb_i, Len(pb_files))
    /\ pb_pc = "done" =>
         /\ Len(pb_moves) = Len(pb_files)
         /\ success_count + error_count = Len(pb_files)
         /\ success_count = Cardinality(MovedTrue)

\* three objects in two batches, the first move failed, a later one succeeded
C14_Witness ==
  /\ pb_pc = "done"
  /\ Len(pb_files) = 3
  /\ pb_batch_size = 2
  /\ pb_moves[1].outcome = "raise"
  /\ pb_moves[2].outcome = "false"
  /\ pb_moves[3].outcome = "true"
  /\ success_count = 1
  /\ error_count = 2

-----------------------------------------------------------------------------
(* Claims about the key remapping *)

\* C16: for every source key that starts with source_prefix and every
\* dest_prefix, the destination key computed by process_batch is dest_prefix
\* followed by the source key with source_prefix stripped, so that the
\* relative path under the prefix is preserved.
C16_DestKeyIsPrefixPlusRelative ==
  (kr_dest_key # None /\ StartsWith(kr_source_key, kr_source_prefix)) =>
    kr_dest_key = kr_dest_prefix \o DropPrefix(kr_source_key, kr_source_prefix)

-----------------------------------------------------------------------------
(* Claims about the thread pool of the merge *)

\* C21: at every moment of a merge the number of batch tasks that run
\* concurrently is at most min(10, batchCount), with batchCount =
\* ceil(len(csv_files) / batch_size).
C21_PoolBound ==
  Cardinality(PoRunning) <= Min(10, CeilOf(po_n, po_batch_size))

\* ten tasks run while a submitted one waits in the queue
C21_Witness ==
  /\ Cardinality(PoRunning) = 10
  /\ \E b \in 1..Len(po_tasks) : po_tasks[b] = "queued"

-----------------------------------------------------------------------------
(* Claims about a mover execution over the store *)

\* the listed objects whose content is stored under no key of either bucket
StLost == {k \in 1..Len(st_files) : \A o \in store : o.content # st_files[k]}

\* C29: at every state of a mover execution the content of every listed
\* object is stored under some key of the source or the destination bucket;
\* two distinct source keys never get the same dest_key, and the object
\* about to be deleted is not the object under dest_key.
C29_NoListedObjectLost ==
  /\ StLost = {}
  /\ \A j, k \in 1..Len(st_dest_keys) : j # k => st_dest_keys[j] # st_dest_keys[k]
  /\ st_pc = "delete" => ~(st_dest_bucket = "src" /\ st_dest_key = StSourceKey)

====
